---- MODULE Spec2Model ----
(***************************************************************************)
(* A model of img2nef.py: the geometry planner (calcSrcGeomAdjustments),  *)
(* the NEF assembler (writeOutputNEF with generateAndInsertEmbeddedJpgs /  *)
(* generateEmbeddedJpg), source processing (run, processSourceImageData,   *)
(* processSourceNumpy) and the donor metadata parser (extractExifFromNEF). *)
(*                                                                         *)
(* Python floats are modelled by exact rationals <<numerator, denominator>>*)
(* and Python's round() by round-half-to-even on such a rational; where    *)
(* the float is an inexact product, a tie may fall to either neighbour.    *)
(* Byte buffers are sequences of 0..255; a file offset k is index k + 1.   *)
(***************************************************************************)
EXTENDS Integers, Sequences, FiniteSets, TLC

VARIABLES
    \* ---- geometry planner (calcSrcGeomAdjustments) ----
    srcDimensions,          \* [columns, rows] of the source image
    tgtDimensions,          \* [columns, rows] of the raw frame
    resizeGeom,             \* "NONE" | "MINIMUM" | "FULL"
    fMaintainAspectRatio,   \* BOOLEAN
    horzAlignment,          \* "LEFT" | "CENTER" | "RIGHT"
    vertAlignment,          \* "TOP" | "CENTER" | "BOTTOM"
    srcGeomAdjustments,     \* the plan returned (None before the call)
    geomPc,                 \* "call" | "done"
    \* ---- assembler (writeOutputNEF) ----
    exif,                   \* Config.exif: the donor metadata record
    templateNef,            \* bytes of the donor file
    encodedImageData,       \* the compressed strip
    haveImage,              \* image8 is not None: an image is available for previews
    newNefData,             \* the output byte buffer
    jpgIdx,                 \* index into exif.embeddedJpgs of the record in progress
    quality,                \* JPEG quality of the next encode in generateEmbeddedJpg
    encodes,                \* per record: the qualities encoded so far, in order
    placeholderCalls,       \* per record: calls of generatePlaceholderEmbeddedJpg
    anyFit,                 \* per record: some generated JPEG was <= the record's length
    inserted,               \* per record: the JPEG written over it, or <<>>
    outcome,                \* per record: "pending" | "regen" | "placeholder" | "skipped" | "undecodable"
    jpgsError,              \* return value of generateAndInsertEmbeddedJpgs
    outputFile,             \* the output file: None, or its bytes
    error,                  \* "" | "read" | "filename" | "open" | "write"
    fWriteFailed,           \* return value of writeOutputNEF
    pc,                     \* position inside writeOutputNEF
    \* ---- source processing (run, processSourceFile): for an image source the
    \* ---- pixel pipeline (processSourceImageData) on one pixel of the image
    input,                  \* the source file: None, or [kind, loads, dtype, shape, data]
    srcImage,               \* the image loaded: [dtype, ndim, px], px its channels at the pixel
    site,                   \* <<row % 2, column % 2>> of the pixel
    args,                   \* Config.args: src_hsl, src_srgbtolinear, src_wbmultipliers
    blackLevel,             \* Config.exif.blackLevel
    wbMultipliers,          \* Config.exif.wbMultipliers: [red, blue], each <<num, den>>
    image,                  \* the image as the operation list has left it so far
    opsDone,                \* operations of sourceOps \o bayerOps performed
    bayeredImage,           \* None, or the Bayer plane produced (rows of samples)
    encoderCalls,           \* calls of src_EncodeToNikonLossless
    srcPc,                  \* position in run(): "idle" | "cmdline" | "template" |
                            \* "exif" | "source" | "ops" | "encode" |
                            \* "write" | "done" | "error" | "raised"
    \* ---- donor metadata (extractExifFromNEF) ----
    result,                 \* what execExternalProgram("exiftool") returned: None, or
                            \* [stderr, stdout], stdout the report as a sequence of lines
    exifPc,                 \* "idle" | "call" | "done" | "raised"
    \* ---- createoverlay.py: drawGridline ----
    gridline,               \* None, or the arguments [gridDimensions, rawDimensions, jpgDimensions]
    vertLines,              \* x of the vertical lines drawn, in drawing order
    horzLines,              \* y of the horizontal lines drawn, in drawing order
    gridPc                  \* "idle" | "call" | "done"

geomVars == <<srcDimensions, tgtDimensions, resizeGeom, fMaintainAspectRatio,
              horzAlignment, vertAlignment, srcGeomAdjustments, geomPc>>
nefVars  == <<exif, templateNef, encodedImageData, haveImage, newNefData, jpgIdx,
              quality, encodes, placeholderCalls, anyFit, inserted, outcome,
              jpgsError, outputFile, error, fWriteFailed, pc>>
srcVars  == <<input, srcImage, site, args, blackLevel, wbMultipliers, image, opsDone,
              bayeredImage, encoderCalls, srcPc>>
exifVars == <<result, exifPc>>
gridVars == <<gridline, vertLines, horzLines, gridPc>>
vars == <<geomVars, nefVars, srcVars, exifVars, gridVars>>

(***************************************************************************)
(* Bounds of the model.                                                    *)
(***************************************************************************)
MaxDim == 6
MaxNpyDim == 3

(***************************************************************************)
(* Python values.                                                          *)
(***************************************************************************)
None == [some |-> FALSE]

\* source processing not started
SrcIdle ==
    /\ input = None
    /\ srcImage = None
    /\ site = <<0, 0>>
    /\ args = None
    /\ blackLevel = 0
    /\ wbMultipliers = None
    /\ image = None
    /\ opsDone = 0
    /\ bayeredImage = None
    /\ encoderCalls = 0
    /\ srcPc = "idle"

\* extractExifFromNEF not called
ExifIdle ==
    /\ result = None
    /\ exifPc = "idle"

\* drawGridline not called
GridIdle ==
    /\ gridline = None
    /\ vertLines = <<>>
    /\ horzLines = <<>>
    /\ gridPc = "idle"

Dimensions(columns, rows) == [some |-> TRUE, columns |-> columns, rows |-> rows]

Coordinate(x, y) == [x |-> x, y |-> y]

Rect(startx, starty, endx, endy) ==
    [some |-> TRUE, startx |-> startx, starty |-> starty, endx |-> endx, endy |-> endy]

SrcGeomAdjustments(resizeDimensions, posInTgt, cropRect) ==
    [some |-> TRUE, resizeDimensions |-> resizeDimensions,
     posInTgt |-> posInTgt, cropRect |-> cropRect]

\* int(round(n / d)) for d > 0: Python 3 rounds halves to the even neighbour.
RoundHalfEven(n, d) ==
    LET f == n \div d
        r == n % d
    IN  IF 2 * r < d THEN f
        ELSE IF 2 * r > d THEN f + 1
        ELSE IF f % 2 = 0 THEN f ELSE f + 1

\* int(x) for the rational n / d, d > 0: truncation toward zero.
TruncToInt(n, d) == IF n >= 0 THEN n \div d ELSE -((-n) \div d)

(***************************************************************************)
(* calcSrcGeomAdjustments and its nested helpers.                          *)
(***************************************************************************)

\* int(round(x)) where x is the float product of an integer and a float
\* quotient and n / d is its exact value.  The product is inexact, so when
\* n / d lies exactly half way between two integers the float lies on either
\* side of the tie (3 * ((5/3) * (7/(2*(5/3)))) is 10.500000000000002):
\* either neighbour can result, chosen by tieUp.
RoundFloatProduct(n, d, tieUp) ==
    LET f == n \div d
        r == n % d
    IN  IF 2 * r < d THEN f
        ELSE IF 2 * r > d THEN f + 1
        ELSE IF tieUp THEN f + 1 ELSE f

\* returns <<start, end>>, end exclusive
calcAxisCrop(srcAmount, tgtAmount, alignment) ==
    IF srcAmount <= tgtAmount THEN <<0, srcAmount>>
    ELSE LET amountToCrop == srcAmount - tgtAmount IN
         CASE alignment \in {"LEFT", "TOP"} -> <<0, tgtAmount>>
           [] alignment = "CENTER" ->
                \* start = int(round(amountToCrop / 2))
                \* end   = int(round(srcAmount - (amountToCrop / 2) - (amountToCrop % 2)))
                <<RoundHalfEven(amountToCrop, 2),
                  RoundHalfEven(2 * srcAmount - amountToCrop - 2 * (amountToCrop % 2), 2)>>
           [] alignment \in {"RIGHT", "BOTTOM"} -> <<amountToCrop, tgtAmount>>

\* variant: CENTER places the source against the far side
CalcAxisPosCenterAtFarSide(srcAmount, tgtAmount, alignment) ==
    IF srcAmount >= tgtAmount THEN 0
    ELSE CASE alignment \in {"LEFT", "TOP"} -> 0
           [] alignment = "CENTER" -> tgtAmount - srcAmount
           [] alignment \in {"RIGHT", "BOTTOM"} -> tgtAmount - srcAmount

calcAxisPos(srcAmount, tgtAmount, alignment) ==
    IF srcAmount >= tgtAmount THEN 0
    ELSE CASE alignment \in {"LEFT", "TOP"} -> 0
           \* pos = int((tgtAmount/2) - (srcAmount/2))
           [] alignment = "CENTER" -> TruncToInt(tgtAmount - srcAmount, 2)
           [] alignment \in {"RIGHT", "BOTTOM"} -> tgtAmount - srcAmount

\* MINIMUM without aspect-ratio lock (lines 375-380)
ResizeMinimumFree(src, tgt) ==
    IF src.columns < tgt.columns
        THEN Dimensions(tgt.columns, src.rows)
        ELSE Dimensions(src.columns, tgt.rows)

ResizeMinimumAspectLargerMultiplier(src, tgt, tieUp) ==
    IF tgt.columns * src.rows > tgt.rows * src.columns
        THEN Dimensions(tgt.columns, RoundFloatProduct(src.rows * tgt.columns, src.columns, tieUp))
        ELSE Dimensions(RoundFloatProduct(src.columns * tgt.rows, src.rows, tieUp), tgt.rows)

\* MINIMUM with aspect-ratio lock (lines 383-390):
\* columnMultiplier = tgt.columns / src.columns, rowMultiplier = tgt.rows / src.rows
ResizeMinimumAspect(src, tgt, tieUp) ==
    IF tgt.columns * src.rows < tgt.rows * src.columns   \* columnMultiplier < rowMultiplier
        THEN Dimensions(tgt.columns, RoundFloatProduct(src.rows * tgt.columns, src.columns, tieUp))
        ELSE Dimensions(RoundFloatProduct(src.columns * tgt.rows, src.rows, tieUp), tgt.rows)

ResizeFullColumnsOnly(src, tgt, tieUp) ==
    LET columnMultiplier == IF src.columns < tgt.columns
                                THEN <<tgt.columns, src.columns>> ELSE <<1, 1>>
    IN  Dimensions(RoundFloatProduct(src.columns * columnMultiplier[1], columnMultiplier[2], tieUp),
                   RoundFloatProduct(src.rows * columnMultiplier[1], columnMultiplier[2], tieUp))

\* FULL (lines 392-401); multipliers are rationals <<n, d>>
ResizeFull(src, tgt, tieUp) ==
    LET columnMultiplier == IF src.columns < tgt.columns
                                THEN <<tgt.columns, src.columns>> ELSE <<1, 1>>
        \* srcDimensions.rows*columnMultiplier < tgtDimensions.rows
        rowMultiplier == IF src.rows * columnMultiplier[1] < tgt.rows * columnMultiplier[2]
                             THEN <<tgt.rows * columnMultiplier[2], src.rows * columnMultiplier[1]>>
                             ELSE <<1, 1>>
        totalMultiplier == <<columnMultiplier[1] * rowMultiplier[1],
                             columnMultiplier[2] * rowMultiplier[2]>>
    IN  Dimensions(RoundFloatProduct(src.columns * totalMultiplier[1], totalMultiplier[2], tieUp),
                   RoundFloatProduct(src.rows * totalMultiplier[1], totalMultiplier[2], tieUp))

\* the "calculate resize enlargement" block (lines 367-406)
calcResizeDimensions(src, tgt, geom, aspect, tieUp) ==
    IF src.columns >= tgt.columns /\ src.rows >= tgt.rows THEN None
    ELSE CASE geom = "MINIMUM" ->
                IF ~aspect THEN ResizeMinimumFree(src, tgt)
                           ELSE ResizeMinimumAspect(src, tgt, tieUp)
           [] geom = "FULL" -> ResizeFull(src, tgt, tieUp)
           [] geom = "NONE" -> None

calcSrcGeomAdjustments(src, tgt, geom, aspect, horz, vert, tieUp) ==
    IF src = tgt THEN None
    ELSE
      LET resizeDimensions == calcResizeDimensions(src, tgt, geom, aspect, tieUp)
          newDimensions == IF resizeDimensions.some THEN resizeDimensions ELSE src
          pos == Coordinate(calcAxisPos(newDimensions.columns, tgt.columns, horz),
                            calcAxisPos(newDimensions.rows, tgt.rows, vert))
          cropRect ==
            IF newDimensions.columns <= tgt.columns /\ newDimensions.rows <= tgt.rows
                THEN None
                ELSE LET cx == calcAxisCrop(newDimensions.columns, tgt.columns, horz)
                         cy == calcAxisCrop(newDimensions.rows, tgt.rows, vert)
                     IN  Rect(cx[1], cy[1], cx[2], cy[2])
      IN  SrcGeomAdjustments(resizeDimensions, pos, cropRect)

(***************************************************************************)
(* The planner as a state machine: Init draws the arguments, the action    *)
(* applies calcSrcGeomAdjustments to them.                                 *)
(***************************************************************************)
DimRange == 1 .. MaxDim

\* seed scenario of the specification: a 1000x1000 source into a 6000x4000 raw
ScenarioSrc == Dimensions(1000, 1000)
ScenarioTgt == Dimensions(6000, 4000)

GeomInputs ==
    { <<Dimensions(sc, sr), Dimensions(tc, tr)>> :
        sc \in DimRange, sr \in DimRange, tc \in DimRange, tr \in DimRange }
    \cup { <<ScenarioSrc, ScenarioTgt>> }

NefIdle ==
    /\ exif = None
    /\ templateNef = <<>>
    /\ encodedImageData = <<>>
    /\ haveImage = FALSE
    /\ newNefData = <<>>
    /\ jpgIdx = 0
    /\ quality = 0
    /\ encodes = <<>>
    /\ placeholderCalls = <<>>
    /\ anyFit = <<>>
    /\ inserted = <<>>
    /\ outcome = <<>>
    /\ jpgsError = FALSE
    /\ outputFile = None
    /\ error = ""
    /\ fWriteFailed = FALSE
    /\ pc = "idle"

GeomInit ==
    /\ \E io \in GeomInputs : srcDimensions = io[1] /\ tgtDimensions = io[2]
    /\ resizeGeom \in {"NONE", "MINIMUM", "FULL"}
    /\ fMaintainAspectRatio \in BOOLEAN
    /\ horzAlignment \in {"LEFT", "CENTER", "RIGHT"}
    /\ vertAlignment \in {"TOP", "CENTER", "BOTTOM"}
    /\ srcGeomAdjustments = None
    /\ geomPc = "call"
    /\ NefIdle
    /\ SrcIdle
    /\ ExifIdle
    /\ GridIdle

CalcSrcGeomAdjustments ==
    /\ geomPc = "call"
    /\ \E tieUp \in BOOLEAN :
         srcGeomAdjustments' = calcSrcGeomAdjustments(srcDimensions, tgtDimensions,
                                   resizeGeom, fMaintainAspectRatio,
                                   horzAlignment, vertAlignment, tieUp)
    /\ geomPc' = "done"
    /\ UNCHANGED <<srcDimensions, tgtDimensions, resizeGeom, fMaintainAspectRatio,
                   horzAlignment, vertAlignment>>
    /\ UNCHANGED nefVars
    /\ UNCHANGED srcVars
    /\ UNCHANGED <<exifVars, gridVars>>

GeomNext == CalcSrcGeomAdjustments

SpecGeom == GeomInit /\ [][GeomNext]_vars

\* the plan's derived quantities, for the properties below
Planned == geomPc = "done" /\ srcGeomAdjustments.some
NewDimensions ==
    IF srcGeomAdjustments.resizeDimensions.some
        THEN srcGeomAdjustments.resizeDimensions ELSE srcDimensions
ShorterOnSomeAxis ==
    srcDimensions.columns < tgtDimensions.columns \/ srcDimensions.rows < tgtDimensions.rows

(***************************************************************************)
(* Properties of the geometry planner.                                     *)
(***************************************************************************)

\* C6: for RIGHT (horizontal) or BOTTOM (vertical) alignment on an axis whose
\* size after resize exceeds the target by a > 0, the crop interval on that
\* axis is [a, size), whose extent equals the target.
C6_RightBottomCropsLowSideOnly ==
    (Planned /\ srcGeomAdjustments.cropRect.some) =>
        LET crop == srcGeomAdjustments.cropRect
            new  == NewDimensions
        IN  /\ (horzAlignment = "RIGHT" /\ new.columns > tgtDimensions.columns) =>
                  /\ crop.startx = new.columns - tgtDimensions.columns
                  /\ crop.endx = new.columns
                  /\ crop.endx - crop.startx = tgtDimensions.columns
            /\ (vertAlignment = "BOTTOM" /\ new.rows > tgtDimensions.rows) =>
                  /\ crop.starty = new.rows - tgtDimensions.rows
                  /\ crop.endy = new.rows
                  /\ crop.endy - crop.starty = tgtDimensions.rows

\* C7: for CENTER alignment on an axis with surplus a = size - target > 0 the
\* crop interval is [floor(a/2), floor(a/2) + target): floor(a/2) pixels come
\* off the low side and ceil(a/2) off the high side.
C7_CenterCropSplitsSurplus ==
    (Planned /\ srcGeomAdjustments.cropRect.some) =>
        LET crop == srcGeomAdjustments.cropRect
            new  == NewDimensions
            ax   == new.columns - tgtDimensions.columns
            ay   == new.rows - tgtDimensions.rows
        IN  /\ (horzAlignment = "CENTER" /\ ax > 0) =>
                  /\ crop.startx = ax \div 2
                  /\ crop.endx = (ax \div 2) + tgtDimensions.columns
            /\ (vertAlignment = "CENTER" /\ ay > 0) =>
                  /\ crop.starty = ay \div 2
                  /\ crop.endy = (ay \div 2) + tgtDimensions.rows

AlignedOffset(size, target, alignment) ==
    IF size >= target THEN 0
    ELSE CASE alignment \in {"LEFT", "TOP"} -> 0
           [] alignment \in {"RIGHT", "BOTTOM"} -> target - size
           [] alignment = "CENTER" -> (target - size) \div 2

\* C9: with geometry MINIMUM and aspect-ratio lock, for a source shorter than
\* the target on at least one axis, the resize dimensions equal the target on
\* at least one axis and exceed it on neither, no crop is planned and the
\* short axis is placed by the alignment rule; the 1000x1000 source into
\* 6000x4000 with CENTER/CENTER is resized to 4000x4000 and placed at (1000,0).
C9_MinimumAspectFitsInside ==
    (/\ geomPc = "done" /\ resizeGeom = "MINIMUM" /\ fMaintainAspectRatio
     /\ ShorterOnSomeAxis) =>
        /\ srcGeomAdjustments.some
        /\ LET plan   == srcGeomAdjustments
               resize == plan.resizeDimensions
           IN  /\ resize.some
               /\ (resize.columns = tgtDimensions.columns
                     \/ resize.rows = tgtDimensions.rows)
               /\ resize.columns <= tgtDimensions.columns
               /\ resize.rows <= tgtDimensions.rows
               /\ ~plan.cropRect.some
               /\ plan.posInTgt.x =
                     AlignedOffset(resize.columns, tgtDimensions.columns, horzAlignment)
               /\ plan.posInTgt.y =
                     AlignedOffset(resize.rows, tgtDimensions.rows, vertAlignment)
               /\ (/\ srcDimensions = ScenarioSrc /\ tgtDimensions = ScenarioTgt
                   /\ horzAlignment = "CENTER" /\ vertAlignment = "CENTER") =>
                    /\ resize = Dimensions(4000, 4000)
                    /\ plan.posInTgt = Coordinate(1000, 0)

C9_Witness ==
    /\ geomPc = "done" /\ resizeGeom = "MINIMUM" /\ fMaintainAspectRatio
    /\ srcDimensions = ScenarioSrc /\ tgtDimensions = ScenarioTgt
    /\ horzAlignment = "CENTER" /\ vertAlignment = "CENTER"
    /\ srcGeomAdjustments.some
    /\ srcGeomAdjustments.posInTgt.x = 1000

\* C10: with geometry MINIMUM and aspect-ratio lock every planned resize is
\* an enlargement: neither resized dimension is smaller than the
\* corresponding source dimension.
C10_MinimumAspectOnlyEnlarges ==
    (/\ Planned /\ resizeGeom = "MINIMUM" /\ fMaintainAspectRatio
     /\ srcGeomAdjustments.resizeDimensions.some) =>
        /\ srcGeomAdjustments.resizeDimensions.columns >= srcDimensions.columns
        /\ srcGeomAdjustments.resizeDimensions.rows >= srcDimensions.rows

\* C11: with geometry MINIMUM and no aspect-ratio lock, the planned resize
\* sets every axis on which the source is shorter than the target to the
\* target size and leaves every other axis at its source size, also when the
\* source is shorter on both axes.
C11_MinimumFreeEnlargesEachShortAxis ==
    (/\ geomPc = "done" /\ resizeGeom = "MINIMUM" /\ ~fMaintainAspectRatio
     /\ ShorterOnSomeAxis) =>
        /\ srcGeomAdjustments.some
        /\ srcGeomAdjustments.resizeDimensions.some
        /\ srcGeomAdjustments.resizeDimensions.columns =
              (IF srcDimensions.columns < tgtDimensions.columns
                  THEN tgtDimensions.columns ELSE srcDimensions.columns)
        /\ srcGeomAdjustments.resizeDimensions.rows =
              (IF srcDimensions.rows < tgtDimensions.rows
                  THEN tgtDimensions.rows ELSE srcDimensions.rows)

\* C12: without aspect-ratio lock the geometry value is not applicable: for
\* FULL as for MINIMUM a source shorter than the target on both axes is
\* resized directly to exactly the target dimensions, with no crop.
C12_NoAspectLockResizesToTarget ==
    (/\ geomPc = "done" /\ resizeGeom \in {"MINIMUM", "FULL"} /\ ~fMaintainAspectRatio
     /\ srcDimensions.columns < tgtDimensions.columns
     /\ srcDimensions.rows < tgtDimensions.rows) =>
        /\ srcGeomAdjustments.some
        /\ srcGeomAdjustments.resizeDimensions = tgtDimensions
        /\ ~srcGeomAdjustments.cropRect.some

\* C13: for every plan returned, the placement offset on an axis is 0 when the
\* (resized) source is not shorter than the target on that axis, and otherwise
\* 0 for LEFT/TOP, target - size for RIGHT/BOTTOM and floor((target - size)/2)
\* for CENTER; hence offset + size <= target on every axis that is shorter.
C13_PlacementOffset ==
    Planned =>
        LET new == NewDimensions
            pos == srcGeomAdjustments.posInTgt
        IN  /\ pos.x = AlignedOffset(new.columns, tgtDimensions.columns, horzAlignment)
            /\ pos.y = AlignedOffset(new.rows, tgtDimensions.rows, vertAlignment)
            /\ pos.x >= 0 /\ pos.y >= 0
            /\ new.columns < tgtDimensions.columns => pos.x + new.columns <= tgtDimensions.columns
            /\ new.rows < tgtDimensions.rows => pos.y + new.rows <= tgtDimensions.rows

C13_Witness ==
    /\ Planned
    /\ horzAlignment = "CENTER" /\ vertAlignment = "BOTTOM"
    /\ tgtDimensions.columns - NewDimensions.columns = 3
    /\ srcGeomAdjustments.posInTgt.x = 1
    /\ NewDimensions.rows < tgtDimensions.rows
    /\ srcGeomAdjustments.posInTgt.y = tgtDimensions.rows - NewDimensions.rows

(***************************************************************************)
(* Byte buffers: Python bytearray slices and struct.pack.                  *)
(***************************************************************************)
Min(a, b) == IF a < b THEN a ELSE b
Max(a, b) == IF a > b THEN a ELSE b

\* bytes([0x0] * n) / bytearray(n)
Zeros(n) == [i \in 1 .. n |-> 0]

\* buf[a:b] = data on a bytearray: the bounds are clamped to the buffer and
\* the slice is replaced by data, whatever its length (the buffer grows or
\* shrinks when the lengths differ)
SliceAssign(buf, a, b, data) ==
    LET lo == Min(a, Len(buf))
        hi == Max(lo, Min(b, Len(buf)))
    IN  SubSeq(buf, 1, lo) \o data \o SubSeq(buf, hi + 1, Len(buf))

PackBE32(n) ==
    << (n \div 16777216) % 256, (n \div 65536) % 256, (n \div 256) % 256, n % 256 >>

\* struct.pack('<I', n)
PackLE32(n) ==
    << n % 256, (n \div 256) % 256, (n \div 65536) % 256, (n \div 16777216) % 256 >>

(***************************************************************************)
(* Donor files.  A donor is a TIFF container: a byte-order mark, then the  *)
(* strip-byte-count field, the preview length fields and the preview JPEGs,*)
(* pairwise disjoint and all before the raw strip, which ends the file.    *)
(* exif is what extractExifFromNEF returns for it.                         *)
(***************************************************************************)
MaxJpgLen == 2      \* longest preview JPEG of a donor
MaxStripLen == 2    \* longest compressed strip

JpgCounts == {0, 1, 2}
EmbeddedJpgExifNames == <<"JpgFromRaw", "OtherImage", "PreviewImage", "Thumbnail">>

\* the order of the blocks of a donor with n previews: <<"F", 0>> is the
\* strip-byte-count field, <<"L", i>> and <<"J", i>> the length field and the
\* JPEG of preview i
BlockOrders(n) ==
    { << <<"F", 0>> >> \o [k \in 1 .. 2 * n |-> IF k % 2 = 1 THEN <<"L", (k + 1) \div 2>>
                                                     ELSE <<"J", k \div 2>>],
      [k \in 1 .. 2 * n |-> IF k <= n THEN <<"J", n + 1 - k>> ELSE <<"L", k - n>>]
          \o << <<"F", 0>> >> }

BlockLen(block, lens) == IF block[1] \in {"F", "L"} THEN 4 ELSE lens[block[2]]

\* offset of the k-th block: a 2-byte mark, blocks one byte apart
RECURSIVE BlockOffset(_, _, _)
BlockOffset(order, lens, k) ==
    IF k = 1 THEN 2
    ELSE BlockOffset(order, lens, k - 1) + BlockLen(order[k - 1], lens) + 1

OffsetOf(order, lens, block) ==
    BlockOffset(order, lens, CHOOSE k \in 1 .. Len(order) : order[k] = block)

DonorStripOffset(order, lens) == BlockOffset(order, lens, Len(order) + 1)

DonorExif(endian, order, lens) ==
    [some |-> TRUE,
     endian |-> endian,
     stripOffset |-> DonorStripOffset(order, lens),
     fileOffsetToStripByteCount |-> OffsetOf(order, lens, <<"F", 0>>),
     embeddedJpgs |->
        [i \in 1 .. Len(lens) |->
            [exifName |-> EmbeddedJpgExifNames[2 * i - 1],
             start |-> OffsetOf(order, lens, <<"J", i>>),
             length |-> lens[i],
             offsetToLengthField |-> OffsetOf(order, lens, <<"L", i>>)]]]

DonorPack(endian, n) == IF endian = "LITTLE" THEN PackLE32(n) ELSE PackBE32(n)

\* the donor's bytes: mark 73 73 ("II") or 77 77 ("MM"), fields in the donor's
\* byte order, JPEG bytes 150.., filler 170, the donor's own strip 238
DonorBytes(endian, order, lens) ==
    LET S == DonorStripOffset(order, lens)
        oldStrip == MaxStripLen + 1
        ByteAt(o) ==
            IF o < 2 THEN (IF endian = "LITTLE" THEN 73 ELSE 77)
            ELSE IF o >= S THEN 238
            ELSE LET ks == { k \in 1 .. Len(order) :
                               /\ BlockOffset(order, lens, k) <= o
                               /\ o < BlockOffset(order, lens, k) + BlockLen(order[k], lens) }
                 IN  IF ks = {} THEN 170
                     ELSE LET k == CHOOSE x \in ks : TRUE
                              i == o - BlockOffset(order, lens, k)
                          IN  IF order[k][1] = "F" THEN DonorPack(endian, oldStrip)[i + 1]
                              ELSE IF order[k][1] = "L"
                                   THEN DonorPack(endian, lens[order[k][2]])[i + 1]
                                   ELSE 150 + i
    IN  [x \in 1 .. S + oldStrip |-> ByteAt(x - 1)]

JpgLens(n) == [1 .. n -> 1 .. MaxJpgLen]

\* a regenerated JPEG of n bytes at quality q, and a placeholder of n bytes
JpgBytes(q, n) == [i \in 1 .. n |-> q + i - 1]
PlaceholderBytes(n) == [i \in 1 .. n |-> 10 + i - 1]
StripBytes(n) == [i \in 1 .. n |-> 180 + i - 1]
JpgSizes == 1 .. MaxJpgLen + 1

(***************************************************************************)
(* writeOutputNEF, generateAndInsertEmbeddedJpgs, generateEmbeddedJpg.     *)
(***************************************************************************)

\* f.read(n) on the donor file
ReadTemplateNef(file, n) == SubSeq(file, 1, Min(n, Len(file)))

\* variant: the strip byte count is packed in the donor's byte order
AssembleNefDonorByteOrder(file, ex, enc) ==
    LET b0 == Zeros(ex.stripOffset + Len(enc))
        b1 == SliceAssign(b0, 0, ex.stripOffset, ReadTemplateNef(file, ex.stripOffset))
        b2 == SliceAssign(b1, ex.stripOffset, Len(b1), enc)
    IN  SliceAssign(b2, ex.fileOffsetToStripByteCount,
                    ex.fileOffsetToStripByteCount + 4, DonorPack(ex.endian, Len(enc)))

\* variant: the donor prefix is not copied into the buffer
AssembleNefWithoutTemplate(file, ex, enc) ==
    LET b0 == Zeros(ex.stripOffset + Len(enc))
        b2 == SliceAssign(b0, ex.stripOffset, Len(b0), enc)
    IN  SliceAssign(b2, ex.fileOffsetToStripByteCount,
                    ex.fileOffsetToStripByteCount + 4, PackLE32(Len(enc)))

\* lines 1070-1090: the buffer with the donor prefix, the strip and the
\* strip byte count
AssembleNef(file, ex, enc) ==
    LET encodedImageDataSize == Len(enc)
        templateNefSizeExcludingRawData == ex.stripOffset
        templateNefData == ReadTemplateNef(file, templateNefSizeExcludingRawData)
        b0 == Zeros(templateNefSizeExcludingRawData + encodedImageDataSize)
        b1 == SliceAssign(b0, 0, templateNefSizeExcludingRawData, templateNefData)
        b2 == SliceAssign(b1, templateNefSizeExcludingRawData, Len(b1), enc)
    IN  SliceAssign(b2, ex.fileOffsetToStripByteCount,
                    ex.fileOffsetToStripByteCount + 4, PackLE32(encodedImageDataSize))

\* variant: a JPEG one byte longer than the original is accepted
JpgFitsOffByOne(jpgSizeBytes, maxSizeBytes) == jpgSizeBytes <= maxSizeBytes + 1

\* line 872 (and 932): a generated JPEG is used when it fits the original one
JpgFits(jpgSizeBytes, maxSizeBytes) == jpgSizeBytes <= maxSizeBytes

\* variant: the slack is filled with as many zeros as the original JPEG is long
InsertJpgZeroFillOrigSize(buf, rec, embeddedJpg) ==
    LET newJpgSizeBytes == Len(embeddedJpg)
        countUnusedBytes == rec.length - newJpgSizeBytes
        b1 == SliceAssign(buf, rec.start, rec.start + newJpgSizeBytes, embeddedJpg)
        b2 == IF countUnusedBytes > 0
                 THEN SliceAssign(b1, rec.start + newJpgSizeBytes,
                                  rec.start + rec.length, Zeros(rec.length))
                 ELSE b1
    IN  SliceAssign(b2, rec.offsetToLengthField, rec.offsetToLengthField + 4,
                    PackLE32(newJpgSizeBytes))

\* variant: the slack keeps the tail of the donor's JPEG
InsertJpgNoZeroFill(buf, rec, embeddedJpg) ==
    LET b1 == SliceAssign(buf, rec.start, rec.start + Len(embeddedJpg), embeddedJpg)
    IN  SliceAssign(b1, rec.offsetToLengthField, rec.offsetToLengthField + 4,
                    PackLE32(Len(embeddedJpg)))

\* lines 1042-1051: overwrite the record's JPEG, zero the slack, update the length
InsertJpg(buf, rec, embeddedJpg) ==
    LET newJpgSizeBytes == Len(embeddedJpg)
        countUnusedBytes == rec.length - newJpgSizeBytes
        b1 == SliceAssign(buf, rec.start, rec.start + newJpgSizeBytes, embeddedJpg)
        b2 == IF countUnusedBytes > 0
                 THEN SliceAssign(b1, rec.start + newJpgSizeBytes,
                                  rec.start + rec.length, Zeros(countUnusedBytes))
                 ELSE b1
    IN  SliceAssign(b2, rec.offsetToLengthField, rec.offsetToLengthField + 4,
                    PackLE32(newJpgSizeBytes))

CountJpgs == Len(exif.embeddedJpgs)
CurJpg == exif.embeddedJpgs[jpgIdx]

GeomIdle ==
    /\ srcDimensions = None
    /\ tgtDimensions = None
    /\ resizeGeom = "NONE"
    /\ fMaintainAspectRatio = FALSE
    /\ horzAlignment = "CENTER"
    /\ vertAlignment = "CENTER"
    /\ srcGeomAdjustments = None
    /\ geomPc = "idle"

\* a file found at the output path before the run (os.path.exists, 834)
ExistingFile == [some |-> TRUE, bytes |-> <<79, 76, 68>>]

Init ==
    /\ GeomIdle
    /\ SrcIdle
    /\ ExifIdle
    /\ GridIdle
    /\ \E endian \in {"LITTLE", "BIG"}, n \in JpgCounts :
         \E order \in BlockOrders(n), lens \in JpgLens(n) :
            /\ exif = DonorExif(endian, order, lens)
            /\ templateNef = DonorBytes(endian, order, lens)
            /\ encodes = [i \in 1 .. n |-> <<>>]
            /\ placeholderCalls = [i \in 1 .. n |-> 0]
            /\ anyFit = [i \in 1 .. n |-> FALSE]
            /\ inserted = [i \in 1 .. n |-> <<>>]
            /\ outcome = [i \in 1 .. n |-> "pending"]
    /\ \E stripLen \in 1 .. MaxStripLen : encodedImageData = StripBytes(stripLen)
    /\ haveImage \in BOOLEAN
    /\ newNefData = <<>>
    /\ jpgIdx = 0
    /\ quality = 0
    /\ jpgsError = FALSE
    /\ outputFile \in {None, ExistingFile}
    /\ error = ""
    /\ fWriteFailed = FALSE
    /\ pc = "read"

\* lines 1070-1090, and the entry of generateAndInsertEmbeddedJpgs (986-1013)
ReadTemplateAndAssemble ==
    /\ pc = "read"
    /\ \/ /\ error' = "read"            \* open/read of the template NEF raised
          /\ fWriteFailed' = TRUE
          /\ pc' = "done"
          /\ UNCHANGED <<newNefData, jpgIdx>>
       \/ /\ newNefData' = AssembleNef(templateNef, exif, encodedImageData)
          /\ IF CountJpgs > 0 THEN jpgIdx' = 1 /\ pc' = "dims"
                              ELSE jpgIdx' = 0 /\ pc' = "write"
          /\ UNCHANGED <<error, fWriteFailed>>
    /\ UNCHANGED <<exif, templateNef, encodedImageData, haveImage, quality, encodes,
                   placeholderCalls, anyFit, inserted, outcome, jpgsError, outputFile>>
    /\ UNCHANGED geomVars
    /\ UNCHANGED srcVars
    /\ UNCHANGED <<exifVars, gridVars>>

\* line 1013: the for loop moves to the next record, or the function returns False
NextJpg ==
    IF jpgIdx < CountJpgs THEN jpgIdx' = jpgIdx + 1 /\ pc' = "dims"
                          ELSE jpgIdx' = jpgIdx /\ pc' = "write"

\* lines 1016-1033: getEmbeddedJpgDimensions decodes the donor's JPEG
GetEmbeddedJpgDimensions ==
    /\ pc = "dims"
    /\ \E decodable \in BOOLEAN :
         IF ~decodable
           THEN /\ outcome' = [outcome EXCEPT ![jpgIdx] = "undecodable"]
                /\ jpgsError' = TRUE    \* return True
                /\ pc' = "write"
                /\ UNCHANGED quality
           ELSE /\ IF haveImage THEN pc' = "encode" /\ quality' = 100
                                ELSE pc' = "placeholder" /\ quality' = quality
                /\ UNCHANGED <<outcome, jpgsError>>
    /\ UNCHANGED <<exif, templateNef, encodedImageData, haveImage, newNefData, jpgIdx,
                   encodes, placeholderCalls, anyFit, inserted, outputFile, error,
                   fWriteFailed>>
    /\ UNCHANGED geomVars
    /\ UNCHANGED srcVars
    /\ UNCHANGED <<exifVars, gridVars>>

\* lines 866-878: one pass of the quality loop of generateEmbeddedJpg, and
\* lines 1042-1051 when it returns a JPEG
EncodeEmbeddedJpg ==
    /\ pc = "encode"
    /\ \E jpgSizeBytes \in JpgSizes :
         /\ encodes' = [encodes EXCEPT ![jpgIdx] = Append(@, quality)]
         /\ anyFit' = [anyFit EXCEPT ![jpgIdx] = @ \/ (jpgSizeBytes <= CurJpg.length)]
         /\ IF JpgFits(jpgSizeBytes, CurJpg.length)
              THEN /\ newNefData' = InsertJpg(newNefData, CurJpg, JpgBytes(quality, jpgSizeBytes))
                   /\ inserted' = [inserted EXCEPT ![jpgIdx] = JpgBytes(quality, jpgSizeBytes)]
                   /\ outcome' = [outcome EXCEPT ![jpgIdx] = "regen"]
                   /\ NextJpg
                   /\ UNCHANGED quality
              ELSE /\ IF quality <= 20
                        THEN pc' = "placeholder" /\ quality' = quality
                        ELSE pc' = "encode" /\ quality' = quality - 10
                   /\ UNCHANGED <<newNefData, inserted, outcome, jpgIdx>>
    /\ UNCHANGED <<exif, templateNef, encodedImageData, haveImage, placeholderCalls,
                   jpgsError, outputFile, error, fWriteFailed>>
    /\ UNCHANGED geomVars
    /\ UNCHANGED srcVars
    /\ UNCHANGED <<exifVars, gridVars>>

\* lines 1034-1051 with generatePlaceholderEmbeddedJpg (928-936)
GeneratePlaceholder ==
    /\ pc = "placeholder"
    /\ \E jpgSizeBytes \in JpgSizes :
         /\ placeholderCalls' = [placeholderCalls EXCEPT ![jpgIdx] = @ + 1]
         /\ anyFit' = [anyFit EXCEPT ![jpgIdx] = @ \/ (jpgSizeBytes <= CurJpg.length)]
         /\ IF JpgFits(jpgSizeBytes, CurJpg.length)
              THEN /\ newNefData' = InsertJpg(newNefData, CurJpg, PlaceholderBytes(jpgSizeBytes))
                   /\ inserted' = [inserted EXCEPT ![jpgIdx] = PlaceholderBytes(jpgSizeBytes)]
                   /\ outcome' = [outcome EXCEPT ![jpgIdx] = "placeholder"]
              ELSE /\ outcome' = [outcome EXCEPT ![jpgIdx] = "skipped"]
                   /\ UNCHANGED <<newNefData, inserted>>
         /\ NextJpg
    /\ UNCHANGED <<exif, templateNef, encodedImageData, haveImage, quality, encodes,
                   jpgsError, outputFile, error, fWriteFailed>>
    /\ UNCHANGED geomVars
    /\ UNCHANGED srcVars
    /\ UNCHANGED <<exifVars, gridVars>>

\* lines 1095-1118: the result of generateAndInsertEmbeddedJpgs is ignored;
\* generateOutputFilename may return None (no name, or the file exists and
\* --ifexists is EXIT; with OVERWRITE the existing file is the target, with
\* ADDSUFFIX the target never exists); open(.., 'wb') may raise, and once it
\* has succeeded the file is empty and f.write may raise after any prefix
WriteFile ==
    /\ pc = "write"
    /\ \/ /\ error' = "filename" /\ UNCHANGED outputFile
       \/ /\ error' = "open" /\ UNCHANGED outputFile
       \/ /\ error' = "write"
          /\ \E k \in {0, Len(newNefData) - 1} :
                outputFile' = [some |-> TRUE, bytes |-> SubSeq(newNefData, 1, k)]
       \/ /\ error' = ""
          /\ outputFile' = [some |-> TRUE, bytes |-> newNefData]
    /\ fWriteFailed' = (error' # "")
    /\ pc' = "done"
    /\ UNCHANGED <<exif, templateNef, encodedImageData, haveImage, newNefData, jpgIdx,
                   quality, encodes, placeholderCalls, anyFit, inserted, outcome,
                   jpgsError>>
    /\ UNCHANGED geomVars
    /\ UNCHANGED srcVars
    /\ UNCHANGED <<exifVars, gridVars>>

Next ==
    \/ ReadTemplateAndAssemble
    \/ GetEmbeddedJpgDimensions
    \/ EncodeEmbeddedJpg
    \/ GeneratePlaceholder
    \/ WriteFile

Spec == Init /\ [][Next]_vars

(***************************************************************************)
(* Properties of the assembler.                                            *)
(***************************************************************************)

\* the buffer exists: the template was read and the strip appended
Assembled == pc \in {"dims", "encode", "placeholder", "write", "done"} /\ error # "read"
\* the file write succeeded
Written == pc = "done" /\ error = ""
Jpgs == 1 .. CountJpgs
Overwritten(i) == outcome[i] \in {"regen", "placeholder"}
\* the bytes of buf at offsets [a, b), read one by one
BytesAt(buf, a, b) == [k \in 1 .. b - a |-> buf[a + k]]
\* n as four bytes, least significant first
LittleEndian4(n) ==
    [k \in 1 .. 4 |-> CASE k = 1 -> n % 256
                        [] k = 2 -> (n \div 256) % 256
                        [] k = 3 -> (n \div 65536) % 256
                        [] k = 4 -> (n \div 16777216) % 256]
InField(o, fieldOffset) == fieldOffset <= o /\ o < fieldOffset + 4

\* C1: on a donor of at least stripOffset bytes whose preview records lie
\* inside [0, stripOffset), the buffer written by writeOutputNEF has length
\* exactly stripOffset + len(compressedStrip), whichever previews were
\* regenerated, replaced by a placeholder or skipped.
C1_OutputLength ==
    /\ Assembled => Len(newNefData) = exif.stripOffset + Len(encodedImageData)
    /\ Written => Len(outputFile.bytes) = exif.stripOffset + Len(encodedImageData)

C1_Witness ==
    /\ Written
    /\ CountJpgs = 2
    /\ outcome[1] = "regen" /\ Len(inserted[1]) < exif.embeddedJpgs[1].length
    /\ outcome[2] = "skipped"
    /\ Len(templateNef) >= exif.stripOffset

\* C2: every output byte at an offset in [0, stripOffset) equals the donor's
\* byte at that offset unless the offset lies in (a) the strip-byte-count
\* field, (b) the region [start, start + originalLength) of an overwritten
\* preview record or (c) the length field of such a record; the bytes from
\* stripOffset onward are exactly the compressed strip.
C2_FrameOfAssembly ==
    Assembled =>
        /\ \A o \in 0 .. exif.stripOffset - 1 :
              \/ newNefData[o + 1] = templateNef[o + 1]
              \/ InField(o, exif.fileOffsetToStripByteCount)
              \/ \E i \in Jpgs :
                    /\ Overwritten(i)
                    /\ \/ (exif.embeddedJpgs[i].start <= o
                            /\ o < exif.embeddedJpgs[i].start + exif.embeddedJpgs[i].length)
                       \/ InField(o, exif.embeddedJpgs[i].offsetToLengthField)
        /\ BytesAt(newNefData, exif.stripOffset, Len(newNefData)) = encodedImageData
        /\ Written => outputFile.bytes = newNefData

C2_Witness ==
    /\ Written
    /\ CountJpgs = 2
    /\ outcome[1] = "skipped"
    /\ outcome[2] = "placeholder"
    /\ \E o \in 0 .. exif.stripOffset - 1 : outputFile.bytes[o + 1] # templateNef[o + 1]

\* no preview region and no preview length field overlaps the strip-byte-count field
StripByteCountFieldClear ==
    \A i \in Jpgs :
        LET rec == exif.embeddedJpgs[i]
            fo  == exif.fileOffsetToStripByteCount
        IN  /\ (rec.start + rec.length <= fo \/ fo + 4 <= rec.start)
            /\ (rec.offsetToLengthField + 4 <= fo \/ fo + 4 <= rec.offsetToLengthField)

\* C3: after assembly the 4 bytes at the donor's strip-byte-count field hold
\* len(compressedStrip) as a 32-bit little-endian integer, for little-endian
\* and big-endian donors alike, and the preview overwrites that follow do not
\* alter them when no preview region or length field overlaps the field.
C3_StripByteCountLittleEndian ==
    (Assembled /\ StripByteCountFieldClear) =>
        /\ BytesAt(newNefData, exif.fileOffsetToStripByteCount,
                   exif.fileOffsetToStripByteCount + 4)
              = LittleEndian4(Len(encodedImageData))
        /\ Written =>
              BytesAt(outputFile.bytes, exif.fileOffsetToStripByteCount,
                      exif.fileOffsetToStripByteCount + 4)
                = LittleEndian4(Len(encodedImageData))

C3_Witness ==
    /\ Written
    /\ exif.endian = "BIG"
    /\ CountJpgs = 2
    /\ Overwritten(1) /\ Overwritten(2)
    /\ BytesAt(templateNef, exif.fileOffsetToStripByteCount,
               exif.fileOffsetToStripByteCount + 4)
          # LittleEndian4(Len(encodedImageData))

\* C4: for every preview record P overwritten with a JPEG of n bytes:
\* n <= P.length; output bytes [P.start, P.start + n) are the new JPEG; output
\* bytes [P.start + n, P.start + P.length) are all zero; the 4 bytes at
\* P.offsetToLengthField hold n as a 32-bit little-endian integer.
C4_OverwrittenPreview ==
    \A i \in Jpgs :
        (Assembled /\ Overwritten(i)) =>
            LET rec == exif.embeddedJpgs[i]
                n   == Len(inserted[i])
                Holds(buf) ==
                    /\ BytesAt(buf, rec.start, rec.start + n) = inserted[i]
                    /\ \A o \in rec.start + n .. rec.start + rec.length - 1 : buf[o + 1] = 0
                    /\ BytesAt(buf, rec.offsetToLengthField, rec.offsetToLengthField + 4)
                          = LittleEndian4(n)
            IN  /\ n <= rec.length
                /\ Holds(newNefData)
                /\ Written => Holds(outputFile.bytes)

C4_Witness ==
    /\ Written
    /\ CountJpgs = 2
    /\ outcome[1] = "regen" /\ outcome[2] = "regen"
    /\ Len(inserted[1]) < exif.embeddedJpgs[1].length
    /\ Len(inserted[2]) = exif.embeddedJpgs[2].length
    /\ encodes[1] = <<100, 90, 80>>

\* every JPEG generated for record i was larger than the record: the encodes
\* at all tried qualities (when an image is available) and the placeholder
NothingFits(i) ==
    /\ placeholderCalls[i] > 0
    /\ ~anyFit[i]

\* C5: if for a preview record P neither the regenerated JPEG at any tried
\* quality nor the placeholder is <= P.length bytes, P is skipped: its JPEG
\* bytes and its length field in the output equal the donor's, no error
\* reaches the driver, and the output NEF is still written with the new strip.
C5_SkippedPreview ==
    \A i \in Jpgs :
        (Assembled /\ outcome[i] # "pending" /\ NothingFits(i)) =>
            LET rec == exif.embeddedJpgs[i]
                Same(buf) ==
                    /\ BytesAt(buf, rec.start, rec.start + rec.length)
                          = BytesAt(templateNef, rec.start, rec.start + rec.length)
                    /\ BytesAt(buf, rec.offsetToLengthField, rec.offsetToLengthField + 4)
                          = BytesAt(templateNef, rec.offsetToLengthField,
                                    rec.offsetToLengthField + 4)
            IN  /\ outcome[i] = "skipped"
                /\ inserted[i] = <<>>
                /\ Same(newNefData)
                \* the skip is no error of generateAndInsertEmbeddedJpgs ...
                /\ jpgsError => \E j \in Jpgs : outcome[j] = "undecodable"
                \* ... and writeOutputNEF fails only on the file name or the file write
                /\ pc = "done" => (fWriteFailed <=> error \in {"filename", "open", "write"})
                /\ Written =>
                      /\ ~fWriteFailed
                      /\ outputFile.some
                      /\ Same(outputFile.bytes)
                      /\ BytesAt(outputFile.bytes, exif.stripOffset, Len(outputFile.bytes))
                            = encodedImageData

C5_Witness ==
    /\ Written
    /\ ~fWriteFailed
    /\ CountJpgs = 2
    /\ haveImage
    /\ outcome[1] = "skipped" /\ NothingFits(1)
    /\ Len(encodes[1]) = 9
    /\ outcome[2] = "regen"

(***************************************************************************)
(* Pixel pipeline: processSourceImageData on one pixel of an image that is *)
(* already at raw dimensions.  Every operation of sourceOps and bayerOps   *)
(* other than src_Resize is pointwise, so the pixel at <<row, column>> is  *)
(* followed with site = <<row % 2, column % 2>>.                           *)
(*                                                                         *)
(* A float32 sample is <<num, den, inx>>: the rational num/den, and inx =  *)
(* TRUE when the float32 held by numpy may differ from it in the last      *)
(* places.  astype(uint16) truncates; where the exact value lies within a  *)
(* 1/256 of an integer, the float32 may be on either side of it.           *)
(***************************************************************************)
Ok(img) == [raised |-> FALSE, image |-> img]
Raised == [raised |-> TRUE, image |-> None]

MapPx(img, dtype, F(_)) ==
    [dtype |-> dtype, ndim |-> img.ndim, px |-> [i \in DOMAIN img.px |-> F(img.px[i])]]

\* numpy float32 -> uint16 by astype(): truncation of num/den
FloatToInt(num, den, inx, err) ==
    LET q == num \div den
        r == num % den
        band == den \div 256
    IN  IF ~inx THEN q
        ELSE IF err = "below" /\ r <= band /\ q > 0 THEN q - 1
        ELSE IF err = "above" /\ den - r <= band THEN q + 1
        ELSE q

\* convertImageNumpyTypeIfNecessary for the conversions the pipeline makes:
\* integer -> float divides by the integer type's maximum, float -> uint16
\* multiplies by 65535 and truncates, uint8 -> uint16 shifts left by 8
convertImageNumpyTypeIfNecessary(img, typeWanted, err) ==
    IF img.dtype = typeWanted THEN img
    ELSE IF img.dtype \in {"uint8", "uint16"} /\ typeWanted = "float32" THEN
        MapPx(img, typeWanted,
              LAMBDA n : <<n, IF img.dtype = "uint8" THEN 255 ELSE 65535, FALSE>>)
    ELSE IF img.dtype = "float32" /\ typeWanted = "uint16" THEN
        MapPx(img, typeWanted,
              LAMBDA v : FloatToInt(v[1], v[2] \div 65535, v[3], err))
    ELSE MapPx(img, typeWanted, LAMBDA n : n * 256)

src_Convert_8BitTo16Bit(img, err) ==
    Ok(convertImageNumpyTypeIfNecessary(img, "uint16", err))

\* the image is at raw dimensions: calcSrcGeomAdjustments returns None and
\* resizeImgToRawDimensions returns the image as it is
RawCell == Dimensions(2, 2)

src_Resize(img) ==
    IF calcSrcGeomAdjustments(RawCell, RawCell, "FULL", TRUE, "CENTER", "CENTER", FALSE).some
        THEN Raised
        ELSE Ok(img)

src_Convert16BitToNormalizedFloat(img, err) ==
    Ok(convertImageNumpyTypeIfNecessary(img, "float32", err))

MaxOf(S) == CHOOSE m \in S : \A x \in S : x <= m

\* cv2.cvtColor(BGR2HSV), image *= src_hsl, cv2.cvtColor(HSV2BGR) on a float
\* BGR pixel, for a hue multiplier of 1: with V the largest channel, a channel
\* c becomes l * (V - s * (V - c)).  cvtColor accepts 3 or 4 channels only.
src_ModifyHSL(img, hsl) ==
    IF ~hsl.some THEN Ok(img)
    ELSE IF img.ndim # 3 THEN Raised
    ELSE LET V == MaxOf({img.px[i][1] : i \in DOMAIN img.px})
             s == hsl.s
             l == hsl.l
         IN  Ok(MapPx(img, img.dtype,
                 LAMBDA c : IF c[1] = V
                              THEN <<l[1] * c[1], l[2] * c[2], c[3]>>
                              ELSE <<l[1] * (s[2] * V - s[1] * (V - c[1])),
                                     l[2] * s[2] * c[2], TRUE>>))

src_ConvertNormalizedFloatTo16Bit(img, err) ==
    Ok(convertImageNumpyTypeIfNecessary(img, "uint16", err))

\* colorToBayer: index into the BGR pixel by site (red is channel 2 of BGR)
ChannelAt(st) ==
    CASE st = <<0, 0>> -> 3
      [] st = <<0, 1>> -> 2
      [] st = <<1, 0>> -> 2
      [] st = <<1, 1>> -> 1

src_ConvertToBayer(img, st) ==
    IF img.ndim = 2 THEN Ok(img)
    ELSE Ok([dtype |-> img.dtype, ndim |-> 2, px |-> <<img.px[ChannelAt(st)]>>])

\* np.where(image <= 0.04045, image / 12.92, ((image + 0.055) / 1.055) ** 2.4):
\* the linear segment is v * 25 / 323; of the power segment only v = 1 (which
\* gives 1) is a rational function of v
src_ConvertSRGBToLinear(img, srgbtolinear) ==
    IF ~srgbtolinear THEN Ok(img)
    ELSE Ok(MapPx(img, img.dtype,
            LAMBDA v : CASE v[1] = 0 -> v
                         [] v[1] > 0 /\ v[1] * 20000 <= 809 * v[2] ->
                                <<25 * v[1], 323 * v[2], TRUE>>
                         [] v[1] = v[2] -> v))

\* red sites [0::2, 0::2] are multiplied by 1/red, blue sites [1::2, 1::2] by
\* 1/blue; 1/m is exact in float32 when m is a power of two
src_ApplyInverseWbMultipliers(img, st, wb) ==
    IF img.dtype # "float32" \/ img.ndim # 2 THEN Raised
    ELSE LET m == CASE st = <<0, 0>> -> wb.red
                    [] st = <<1, 1>> -> wb.blue
                    [] OTHER -> <<1, 1>>
         IN  IF st \in {<<0, 1>>, <<1, 0>>} THEN Ok(img)
             ELSE Ok(MapPx(img, img.dtype,
                     LAMBDA v : <<v[1] * m[2], v[2] * m[1],
                                  v[3] \/ m[1] \notin {1, 2} \/ m[2] \notin {1, 2}>>))

\* image *= (16383 - blackLevel); image.astype(np.uint16)
src_ScaleNormalizedFloatTo14Bit(img, bl, err) ==
    IF img.dtype # "float32" THEN Raised
    ELSE Ok(MapPx(img, "uint16",
            LAMBDA v : FloatToInt(v[1] * (16383 - bl), v[2],
                                  v[3] \/ v[1] % v[2] # 0, err)))

\* image += blackLevel on uint16
src_AddBlackLevelBias(img, bl) ==
    Ok(MapPx(img, img.dtype, LAMBDA n : (n + bl) % 65536))

sourceOps ==
    << "src_Convert_8BitTo16Bit", "src_Resize", "src_Convert16BitToNormalizedFloat",
       "src_ModifyHSL", "src_ConvertNormalizedFloatTo16Bit" >>

bayerOps ==
    << "src_ConvertToBayer", "src_Convert16BitToNormalizedFloat",
       "src_ConvertSRGBToLinear", "src_ApplyInverseWbMultipliers",
       "src_ScaleNormalizedFloatTo14Bit", "src_AddBlackLevelBias" >>

\* Config.args.src_wbmultipliers overrides the donor's multipliers
WbInEffect ==
    IF args.src_wbmultipliers.some THEN args.src_wbmultipliers ELSE wbMultipliers

ApplyOp(op, img, err) ==
    CASE op = "src_Convert_8BitTo16Bit" -> src_Convert_8BitTo16Bit(img, err)
      [] op = "src_Resize" -> src_Resize(img)
      [] op = "src_Convert16BitToNormalizedFloat" -> src_Convert16BitToNormalizedFloat(img, err)
      [] op = "src_ModifyHSL" -> src_ModifyHSL(img, args.src_hsl)
      [] op = "src_ConvertNormalizedFloatTo16Bit" -> src_ConvertNormalizedFloatTo16Bit(img, err)
      [] op = "src_ConvertToBayer" -> src_ConvertToBayer(img, site)
      [] op = "src_ConvertSRGBToLinear" -> src_ConvertSRGBToLinear(img, args.src_srgbtolinear)
      [] op = "src_ApplyInverseWbMultipliers" -> src_ApplyInverseWbMultipliers(img, site, WbInEffect)
      [] op = "src_ScaleNormalizedFloatTo14Bit" -> src_ScaleNormalizedFloatTo14Bit(img, blackLevel, err)
      [] op = "src_AddBlackLevelBias" -> src_AddBlackLevelBias(img, blackLevel)

FloatErr == {"below", "none", "above"}

(***************************************************************************)
(* Numpy sources: processSourceNumpy.  An array is [dtype, shape, data]    *)
(* with data its samples in C order; a plane is a sequence of rows.        *)
(***************************************************************************)
In2(inp, y, x) == inp.data[y * inp.shape[2] + x + 1]
In4(inp, y, x, ch) == inp.data[(y * inp.shape[2] + x) * inp.shape[3] + ch + 1]

SamplesOf(inp) == {inp.data[k] : k \in DOMAIN inp.data}

\* the indices a[start : stop : step] selects in an axis of length len
SliceIdx(start, stop, step, len) ==
    LET a == Min(start, len)
        b == Min(stop, len)
        n == IF b > a THEN (b - a + step - 1) \div step ELSE 0
    IN  [k \in 1 .. n |-> a + (k - 1) * step]

\* dst[ys, xs] = src[sys, sxs]: numpy broadcasts an axis of length 1 and
\* raises ValueError for any other difference in shape
AssignSlice(dst, ys, xs, sys, sxs, Src(_, _)) ==
    IF ~(/\ Len(sys) = Len(ys) \/ Len(sys) = 1
         /\ Len(sxs) = Len(xs) \/ Len(sxs) = 1)
        THEN [raised |-> TRUE, plane |-> dst]
        ELSE [raised |-> FALSE,
              plane |-> [Y \in DOMAIN dst |-> [X \in DOMAIN dst[Y] |->
                  IF \E j \in DOMAIN ys, i \in DOMAIN xs : ys[j] = Y - 1 /\ xs[i] = X - 1
                     THEN LET j == CHOOSE j \in DOMAIN ys : ys[j] = Y - 1
                              i == CHOOSE i \in DOMAIN xs : xs[i] = X - 1
                          IN  Src(sys[IF Len(sys) = 1 THEN 1 ELSE j],
                                  sxs[IF Len(sxs) = 1 THEN 1 ELSE i])
                     ELSE dst[Y][X]]]]

\* variant: a sample of exactly 2^14 passes
ValidateBayeredNpyDataAbove(inp) == MaxOf(SamplesOf(inp)) > 16384

\* True (an error) when a sample is >= 2^14; samples below blackLevel only
\* draw a warning
validateBayeredNpyData(inp) == MaxOf(SamplesOf(inp)) >= 16384

\* lines 1605-1612 and 1647-1654: position and crop of the input in the raw
\* frame, from calcSrcGeomAdjustments with ResizeGeom.NONE
PlacementOf(adj, dims) ==
    [posInTgt |-> IF adj.some THEN adj.posInTgt ELSE Coordinate(0, 0),
     cropRect |-> IF adj.some /\ adj.cropRect.some THEN adj.cropRect
                  ELSE Rect(0, 0, dims.columns, dims.rows)]

NpyPlacement(dims, raw, horz, vert) ==
    PlacementOf(calcSrcGeomAdjustments(dims, raw, "NONE", FALSE, horz, vert, FALSE), dims)

Full(raw, value) == [Y \in 1 .. raw.rows |-> [X \in 1 .. raw.columns |-> value]]

\* lines 1614-1618: the plane is filled with fill and the cropped input is
\* copied into it at posInTgt
CopyPlaneAt(inp, raw, fill, pl) ==
    LET pos == pl.posInTgt
        crop == pl.cropRect
    IN  AssignSlice(Full(raw, fill),
                    SliceIdx(pos.y, pos.y + crop.endy, 1, raw.rows),
                    SliceIdx(pos.x, pos.x + crop.endx, 1, raw.columns),
                    SliceIdx(crop.starty, crop.endy, 1, inp.shape[1]),
                    SliceIdx(crop.startx, crop.endx, 1, inp.shape[2]),
                    LAMBDA y, x : In2(inp, y, x))

CopyPlane(inp, raw, fill, horz, vert) ==
    CopyPlaneAt(inp, raw, fill,
                NpyPlacement(Dimensions(inp.shape[2], inp.shape[1]), raw, horz, vert))

\* variant: the plane is built without bias and blackLevel is then added to
\* every sample, as src_AddBlackLevelBias does for images
ProcessSourceNumpy2DBiased(inp, raw, bl, horz, vert) ==
    LET r == CopyPlane(inp, raw, 0, horz, vert)
    IN  [raised |-> r.raised,
         plane |-> [Y \in DOMAIN r.plane |-> [X \in DOMAIN r.plane[Y] |->
                        r.plane[Y][X] + bl]]]

\* lines 1596-1624: a (rows, columns) array
processSourceNumpy2D(inp, raw, bl, horz, vert) ==
    CopyPlane(inp, raw, bl, horz, vert)

\* lines 1659-1666: channel ch of the input goes to the sites with row
\* parity ch // 2 and column parity ch % 2 of the window at posInTgt
RECURSIVE CopyChannels(_, _, _, _, _)
CopyChannels(plane, inp, raw, pl, ch) ==
    IF ch > 3 THEN [raised |-> FALSE, plane |-> plane]
    ELSE LET pos == pl.posInTgt
             crop == pl.cropRect
             r == AssignSlice(plane,
                      SliceIdx((ch \div 2) + pos.y, pos.y + crop.endy, 2, raw.rows),
                      SliceIdx((ch % 2) + pos.x, pos.x + crop.endx, 2, raw.columns),
                      SliceIdx(crop.starty \div 2, crop.endy \div 2, 1, inp.shape[1]),
                      SliceIdx(crop.startx \div 2, crop.endx \div 2, 1, inp.shape[2]),
                      LAMBDA y, x : In4(inp, y, x, ch))
         IN  IF r.raised THEN r ELSE CopyChannels(r.plane, inp, raw, pl, ch + 1)

\* lines 1635-1672: a (rows, columns, 4) array of Bayer channels
processSourceNumpy4Ch(inp, raw, bl, horz, vert) ==
    CopyChannels(Full(raw, bl), inp, raw,
                 NpyPlacement(Dimensions(inp.shape[2] * 2, inp.shape[1] * 2), raw, horz, vert),
                 0)

\* lines 1587-1678: the outcome of processSourceNumpy once np.load returned
processSourceNumpy(inp, raw, bl, horz, vert) ==
    IF inp.dtype # "uint16" THEN [kind |-> "error", error |-> "dtype"]
    ELSE IF Len(inp.shape) = 2 THEN
        IF validateBayeredNpyData(inp) THEN [kind |-> "error", error |-> "pixels"]
        ELSE LET r == processSourceNumpy2D(inp, raw, bl, horz, vert)
             IN  IF r.raised THEN [kind |-> "raised"]
                 ELSE [kind |-> "bayer", plane |-> r.plane]
    ELSE IF Len(inp.shape) = 3 /\ inp.shape[3] = 3 THEN [kind |-> "rgb"]
    ELSE IF Len(inp.shape) = 3 /\ inp.shape[3] = 4 THEN
        IF validateBayeredNpyData(inp) THEN [kind |-> "error", error |-> "pixels"]
        ELSE LET r == processSourceNumpy4Ch(inp, raw, bl, horz, vert)
             IN  IF r.raised THEN [kind |-> "raised"]
                 ELSE [kind |-> "bayer", plane |-> r.plane]
    ELSE [kind |-> "error", error |-> "shape"]

(***************************************************************************)
(* run(): processSourceFile, the encoder and writeOutputNEF, for the       *)
(* sources and configurations below.                                       *)
(***************************************************************************)
Sites == {<<0, 0>>, <<0, 1>>, <<1, 0>>, <<1, 1>>}

BlackLevels == {0, 1008}

\* Config.exif.wbMultipliers of the donor
ExifWb == [some |-> TRUE, red |-> <<2, 1>>, blue |-> <<3, 2>>]

HslValues ==
    { [some |-> TRUE, h |-> <<1, 1>>, s |-> <<1, 2>>, l |-> <<1, 1>>],     \* the default
      [some |-> TRUE, h |-> <<1, 1>>, s |-> <<1, 1>>, l |-> <<1, 1>>],
      [some |-> TRUE, h |-> <<1, 1>>, s |-> <<1, 1>>, l |-> <<1, 2>>] }

WbOverrides == { None, [some |-> TRUE, red |-> <<1, 2>>, blue |-> <<3, 1>>] }

\* --outputfilenamemethod (238): TEMPLATENEF_AND_INPUTFILE is the default and
\* stands for the three methods that build a name; the runs modelled name no
\* output file on the command line
OutputFilenameMethods == {"NONE", "TEMPLATENEF_AND_INPUTFILE"}

DefaultArgs ==
    [ src_hsl |-> [some |-> TRUE, h |-> <<1, 1>>, s |-> <<1, 2>>, l |-> <<1, 1>>],
      src_srgbtolinear |-> TRUE, src_wbmultipliers |-> None,
      outputfilenamemethod |-> "TEMPLATENEF_AND_INPUTFILE" ]

\* the default options with --outputfilenamemethod NONE
NoNameArgs == [DefaultArgs EXCEPT !.outputfilenamemethod = "NONE"]

ArgsSet ==
    { a \in [ src_hsl : HslValues, src_srgbtolinear : BOOLEAN,
              src_wbmultipliers : WbOverrides,
              outputfilenamemethod : OutputFilenameMethods ] :
        a.outputfilenamemethod = "NONE" => a = NoNameArgs }

ColourSamples8 == {0, 128, 255}
ColourSamples16 == {0, 2560, 32768, 65535}

\* the pixel followed, in BGR order, of the image cv2.imread returns
Images ==
    { [dtype |-> "uint8", ndim |-> 3, px |-> <<c, c, c>>] : c \in 0 .. 255 }
    \cup { [dtype |-> "uint8", ndim |-> 3, px |-> <<b, g, r>>] :
             b \in ColourSamples8, g \in ColourSamples8, r \in ColourSamples8 }
    \cup { [dtype |-> "uint16", ndim |-> 3, px |-> <<b, g, r>>] :
             b \in ColourSamples16, g \in ColourSamples16, r \in ColourSamples16 }
    \cup { [dtype |-> "uint8", ndim |-> 2, px |-> <<c>>] : c \in ColourSamples8 }
    \cup { [dtype |-> "uint16", ndim |-> 2, px |-> <<c>>] : c \in ColourSamples16 }

\* the inputs for which src_ConvertSRGBToLinear is a rational function
SrgbModelled(img, a) ==
    LET k == IF img.dtype = "uint8" THEN 256 ELSE 1
    IN  \/ ~a.src_srgbtolinear
        \/ \A i \in DOMAIN img.px : img.px[i] * k <= 2560
        \/ /\ \A i \in DOMAIN img.px : img.px[i] * k = 65535
           /\ a.src_hsl.l = <<1, 1>>

NpyBases == {0, 1000, 16375, 16380, 16381}

NpyShapes ==
    { <<2>>, <<1, 2, 2, 2>> }
    \cup { <<r, c>> : r \in 1 .. MaxNpyDim, c \in 1 .. MaxNpyDim }
    \cup { <<r, c, ch>> : r \in 1 .. MaxNpyDim - 1, c \in 1 .. MaxNpyDim - 1, ch \in 3 .. 5 }

RECURSIVE Product(_)
Product(shape) == IF shape = <<>> THEN 1 ELSE Head(shape) * Product(Tail(shape))

NpyArray(dtype, shape, base) ==
    [kind |-> "npy", dtype |-> dtype, shape |-> shape,
     data |-> [k \in 1 .. Product(shape) |-> base + k - 1]]

NpyArrays ==
    { NpyArray("uint16", shape, base) : shape \in NpyShapes, base \in NpyBases }
    \cup { NpyArray(dtype, shape, 0) : dtype \in {"uint8", "float32"}, shape \in NpyShapes }

RawDims == { Dimensions(c, r) : c \in {2, 4}, r \in {2, 4} }

IsRgbNpy(inp) == inp.kind = "npy" /\ Len(inp.shape) = 3 /\ inp.shape[3] = 3

\* the pixel of a (rows, columns, 3) array at the site followed
NpyPixel(inp, st) ==
    [dtype |-> inp.dtype, ndim |-> 3,
     px |-> <<In4(inp, st[1], st[2], 0), In4(inp, st[1], st[2], 1), In4(inp, st[1], st[2], 2)>>]

SourceInit ==
    /\ NefIdle
    /\ ExifIdle
    /\ GridIdle
    /\ srcDimensions = None
    /\ resizeGeom = "NONE"
    /\ fMaintainAspectRatio = FALSE
    /\ srcGeomAdjustments = None
    /\ geomPc = "idle"
    /\ blackLevel \in BlackLevels
    /\ wbMultipliers = ExifWb
    /\ image = None
    /\ opsDone = 0
    /\ bayeredImage = None
    /\ encoderCalls = 0
    /\ srcPc = "cmdline"
    /\ \/ /\ input = [kind |-> "image", dtype |-> "", shape |-> <<>>, data |-> <<>>]
          /\ srcImage \in Images
          /\ site \in Sites
          /\ args \in ArgsSet
          /\ SrgbModelled(srcImage, args)
          /\ tgtDimensions = RawCell
          /\ horzAlignment = "CENTER"
          /\ vertAlignment = "CENTER"
       \/ /\ input \in NpyArrays
          /\ srcImage = None
          /\ tgtDimensions \in RawDims
          /\ horzAlignment \in {"LEFT", "CENTER", "RIGHT"}
          /\ vertAlignment \in {"TOP", "CENTER", "BOTTOM"}
          /\ IF IsRgbNpy(input) /\ input.dtype = "uint16"
                THEN /\ tgtDimensions = Dimensions(input.shape[2], input.shape[1])
                     /\ tgtDimensions = RawCell
                     /\ site \in Sites
                     /\ args \in ArgsSet
                     /\ SrgbModelled(NpyPixel(input, site), args)
                ELSE /\ site = <<0, 0>>
                     /\ args \in {DefaultArgs, NoNameArgs}

nefRest == <<exif, templateNef, encodedImageData, haveImage, newNefData, jpgIdx,
             quality, encodes, placeholderCalls, anyFit, inserted, outcome,
             jpgsError, pc>>
srcConfig == <<input, site, args, blackLevel, wbMultipliers>>

\* run() 1742-1744: processCmdLine returns None for a command line argparse
\* rejects
ProcessCmdLine ==
    /\ srcPc = "cmdline"
    /\ \/ srcPc' = "error" /\ error' = "cmdline"
       \/ srcPc' = "template" /\ UNCHANGED error
    /\ UNCHANGED <<srcImage, image, opsDone, bayeredImage, encoderCalls, outputFile,
                   fWriteFailed>>
    /\ UNCHANGED <<srcConfig, nefRest, geomVars, exifVars, gridVars>>

\* run() 1750-1751: resolveTemplateNefSource finds no template NEF
ResolveTemplateNefSource ==
    /\ srcPc = "template"
    /\ \/ srcPc' = "error" /\ error' = "template"
       \/ srcPc' = "exif" /\ UNCHANGED error
    /\ UNCHANGED <<srcImage, image, opsDone, bayeredImage, encoderCalls, outputFile,
                   fWriteFailed>>
    /\ UNCHANGED <<srcConfig, nefRest, geomVars, exifVars, gridVars>>

\* run() 1754-1756: extractExifFromNEF returns None, or the metadata whose
\* blackLevel, wbMultipliers and rawDimensions the run uses
ExtractDonorExif ==
    /\ srcPc = "exif"
    /\ \/ srcPc' = "error" /\ error' = "donor"
       \/ srcPc' = "source" /\ UNCHANGED error
    /\ UNCHANGED <<srcImage, image, opsDone, bayeredImage, encoderCalls, outputFile,
                   fWriteFailed>>
    /\ UNCHANGED <<srcConfig, nefRest, geomVars, exifVars, gridVars>>

\* processSourceImageFile (1536-1548): loadImage returns None when cv2.imread
\* cannot read the file
ProcessSourceImageFile ==
    /\ srcPc = "source"
    /\ input.kind = "image"
    /\ \/ /\ srcPc' = "error" /\ error' = "load"
          /\ UNCHANGED image
       \/ /\ srcPc' = "ops" /\ image' = srcImage
          /\ UNCHANGED error
    /\ UNCHANGED <<srcImage, opsDone, bayeredImage, encoderCalls, outputFile, fWriteFailed>>
    /\ UNCHANGED <<srcConfig, nefRest, geomVars, exifVars, gridVars>>

\* processSourceNumpy (1551-1678), called for a file named *.npy
ProcessSourceNumpy ==
    /\ srcPc = "source"
    /\ input.kind = "npy"
    /\ \/ /\ srcPc' = "error" /\ error' = "load"          \* np.load raised
          /\ UNCHANGED <<srcImage, image, bayeredImage>>
       \/ LET r == processSourceNumpy(input, tgtDimensions, blackLevel,
                                      horzAlignment, vertAlignment)
          IN  CASE r.kind = "error" ->
                     /\ srcPc' = "error" /\ error' = r.error
                     /\ UNCHANGED <<srcImage, image, bayeredImage>>
                [] r.kind = "raised" ->
                     /\ srcPc' = "raised"
                     /\ UNCHANGED <<srcImage, image, bayeredImage, error>>
                [] r.kind = "bayer" ->
                     /\ srcPc' = "encode"
                     /\ bayeredImage' = [some |-> TRUE, plane |-> r.plane]
                     /\ UNCHANGED <<srcImage, image, error>>
                [] r.kind = "rgb" ->
                     /\ srcPc' = "ops"
                     /\ srcImage' = NpyPixel(input, site)
                     /\ image' = srcImage'
                     /\ UNCHANGED <<bayeredImage, error>>
    /\ UNCHANGED <<opsDone, encoderCalls, outputFile, fWriteFailed>>
    /\ UNCHANGED <<srcConfig, nefRest, geomVars, exifVars, gridVars>>

\* performSrcImageOpList(sourceOps, image): one operation of the list
PerformSourceOp ==
    /\ srcPc = "ops"
    /\ opsDone < Len(sourceOps)
    /\ \E err \in FloatErr :
         LET r == ApplyOp(sourceOps[opsDone + 1], image, err)
         IN  IF r.raised
                THEN srcPc' = "raised" /\ UNCHANGED <<image, opsDone>>
                ELSE image' = r.image /\ opsDone' = opsDone + 1 /\ UNCHANGED srcPc
    /\ UNCHANGED <<srcImage, bayeredImage, encoderCalls, outputFile, fWriteFailed, error>>
    /\ UNCHANGED <<srcConfig, nefRest, geomVars, exifVars, gridVars>>

\* performSrcImageOpList(bayerOps, image): one operation of the list; the
\* last one leaves the Bayer plane that run() hands to the encoder
PerformBayerOp ==
    /\ srcPc = "ops"
    /\ opsDone >= Len(sourceOps)
    /\ opsDone < Len(sourceOps) + Len(bayerOps)
    /\ \E err \in FloatErr :
         LET r == ApplyOp(bayerOps[opsDone - Len(sourceOps) + 1], image, err)
         IN  IF r.raised
                THEN srcPc' = "raised" /\ UNCHANGED <<image, opsDone, bayeredImage>>
                ELSE /\ image' = r.image
                     /\ opsDone' = opsDone + 1
                     /\ IF opsDone' = Len(sourceOps) + Len(bayerOps)
                           THEN /\ srcPc' = "encode"
                                /\ bayeredImage' = [some |-> TRUE, plane |-> <<r.image.px>>]
                           ELSE UNCHANGED <<srcPc, bayeredImage>>
    /\ UNCHANGED <<srcImage, encoderCalls, outputFile, fWriteFailed, error>>
    /\ UNCHANGED <<srcConfig, nefRest, geomVars, exifVars, gridVars>>

\* run() 1764-1767: src_EncodeToNikonLossless returns None when the encoder
\* library cannot be loaded
EncodeToNikonLossless ==
    /\ srcPc = "encode"
    /\ encoderCalls' = encoderCalls + 1
    /\ \/ srcPc' = "error" /\ error' = "encode"
       \/ srcPc' = "write" /\ UNCHANGED error
    /\ UNCHANGED <<srcImage, image, opsDone, bayeredImage, outputFile, fWriteFailed>>
    /\ UNCHANGED <<srcConfig, nefRest, geomVars, exifVars, gridVars>>

\* run() 1772-1776: writeOutputNEF writes the output file or fails;
\* generateOutputFilename (811-816) returns None when no output file is named
\* and --outputfilenamemethod is NONE
WriteOutputNEF ==
    /\ srcPc = "write"
    /\ \/ /\ args.outputfilenamemethod = "NONE"
          /\ fWriteFailed' = TRUE /\ srcPc' = "error" /\ error' = "filename"
          /\ UNCHANGED outputFile
       \/ /\ args.outputfilenamemethod # "NONE"
          /\ fWriteFailed' = TRUE /\ srcPc' = "error" /\ error' = "write"
          /\ outputFile' \in {None, [some |-> TRUE, bytes |-> <<>>]}
       \/ /\ args.outputfilenamemethod # "NONE"
          /\ fWriteFailed' = FALSE /\ srcPc' = "done" /\ UNCHANGED error
          /\ outputFile' = [some |-> TRUE, bytes |-> <<>>]
    /\ UNCHANGED <<srcImage, image, opsDone, bayeredImage, encoderCalls>>
    /\ UNCHANGED <<srcConfig, nefRest, geomVars, exifVars, gridVars>>

SourceNext ==
    \/ ProcessCmdLine
    \/ ResolveTemplateNefSource
    \/ ExtractDonorExif
    \/ ProcessSourceImageFile
    \/ ProcessSourceNumpy
    \/ PerformSourceOp
    \/ PerformBayerOp
    \/ EncodeToNikonLossless
    \/ WriteOutputNEF

SpecSource == SourceInit /\ [][SourceNext]_vars

(***************************************************************************)
(* Properties of source processing.                                        *)
(***************************************************************************)
PlaneSamples ==
    { bayeredImage.plane[Y][X] : Y \in 1 .. Len(bayeredImage.plane),
                                 X \in 1 .. Len(bayeredImage.plane[1]) }

\* the nearest integer to n / d, for n >= 0 and d > 0 where no tie arises
Nearest(n, d) == (n \div d) + (IF 2 * (n % d) >= d THEN 1 ELSE 0)

\* C14: every sample of the Bayer plane handed to the encoder lies in
\* [blackLevel, 16383 + blackLevel], for every source kind and every
\* configuration with white-balance multipliers > 0, override multipliers
\* below 1 and Numpy samples below blackLevel included.
C14_BayerSamplesInRange ==
    encoderCalls > 0 =>
        \A v \in PlaneSamples : blackLevel <= v /\ v <= 16383 + blackLevel

\* C15: stage 10 (src_ScaleNormalizedFloatTo14Bit) quantizes a normalized
\* sample v = n / 65535 to round(v * (16383 - blackLevel)), the nearest
\* integer.
C15_Stage10RoundsToNearest ==
    [][ (/\ srcPc = "ops"
         /\ opsDone >= Len(sourceOps)
         /\ opsDone' = opsDone + 1
         /\ bayerOps[opsDone' - Len(sourceOps)] = "src_ScaleNormalizedFloatTo14Bit"
         /\ image.px[1][2] = 65535)
        => image'.px[1] = Nearest(image.px[1][1] * (16383 - blackLevel), 65535) ]_vars

\* C16: for an 8-bit RGB source at raw dimensions with HSL multipliers
\* (1,1,1), srgbToLinear off and white balance (redMul, blueMul), a pixel
\* whose three channels equal s yields blackLevel + round((s/255) * (16383 -
\* blackLevel)) on a green site and the same with the scaled value divided by
\* redMul on a red site and by blueMul on a blue site; s = 255 on a green
\* site gives 16383.
C16_EightBitGraySample ==
    (/\ srcPc = "encode"
     /\ input.kind = "image"
     /\ srcImage.dtype = "uint8" /\ srcImage.ndim = 3
     /\ srcImage.px[1] = srcImage.px[2] /\ srcImage.px[2] = srcImage.px[3]
     /\ args.src_hsl.s = <<1, 1>> /\ args.src_hsl.l = <<1, 1>>
     /\ ~args.src_srgbtolinear) =>
        LET sample == srcImage.px[1]
            m == CASE site = <<0, 0>> -> WbInEffect.red
                   [] site = <<1, 1>> -> WbInEffect.blue
                   [] OTHER -> <<1, 1>>
        IN  bayeredImage.plane[1][1] =
               blackLevel + RoundHalfEven(sample * (16383 - blackLevel) * m[2], 255 * m[1])

\* C17: a grayscale (2-D) source image bypasses the HSL, sRGB-to-linear and
\* inverse-white-balance stages: the pipeline completes, and the sample at
\* every site, red, green or blue, is the source pixel scaled to 14 bits plus
\* blackLevel.
C17_GrayscaleBypass ==
    (/\ input.kind = "image"
     /\ srcImage.ndim = 2
     /\ srcPc \notin {"cmdline", "template", "exif", "source", "ops"}
     /\ ~(srcPc = "error" /\ error \in {"cmdline", "template", "donor", "load"})) =>
        LET p16 == IF srcImage.dtype = "uint8" THEN srcImage.px[1] * 256 ELSE srcImage.px[1]
            scaled == p16 * (16383 - blackLevel)
        IN  /\ srcPc # "raised"
            /\ bayeredImage.some
            /\ bayeredImage.plane[1][1] - blackLevel \in
                  {scaled \div 65535, Nearest(scaled, 65535)}

\* a pre-Bayer Numpy source for which a plane was produced
PreBayerPlane ==
    /\ input.kind = "npy"
    /\ bayeredImage.some
    /\ Len(input.shape) = 2 \/ (Len(input.shape) = 3 /\ input.shape[3] = 4)

\* the input, seen as a Bayer plane: its dimensions and its sample at <<y, x>>
AsBayerRows == IF Len(input.shape) = 2 THEN input.shape[1] ELSE 2 * input.shape[1]
AsBayerColumns == IF Len(input.shape) = 2 THEN input.shape[2] ELSE 2 * input.shape[2]
AsBayer(y, x) ==
    IF Len(input.shape) = 2 THEN In2(input, y, x)
    ELSE In4(input, y \div 2, x \div 2, 2 * (y % 2) + (x % 2))

FitsInRaw == AsBayerRows <= tgtDimensions.rows /\ AsBayerColumns <= tgtDimensions.columns

PlacedAt(y, x) ==
    bayeredImage.plane[AlignedOffset(AsBayerRows, tgtDimensions.rows, vertAlignment) + y + 1]
                      [AlignedOffset(AsBayerColumns, tgtDimensions.columns, horzAlignment) + x + 1]

NpyRejectable ==
    \/ input.dtype # "uint16"
    \/ ~(Len(input.shape) = 2 \/ (Len(input.shape) = 3 /\ input.shape[3] \in {3, 4}))
    \/ /\ Len(input.shape) = 2 \/ (Len(input.shape) = 3 /\ input.shape[3] = 4)
       /\ \E v \in SamplesOf(input) : v >= 16384

\* C19: a Numpy source whose dtype is not uint16, whose shape is not
\* (rows, cols), (rows, cols, 3) or (rows, cols, 4), or that is a 2-D or
\* 4-channel array with a sample >= 16384 is rejected: the run ends in error,
\* the encoder is never called and no output file is written.
C19_NumpyRejected ==
    (input.kind = "npy" /\ NpyRejectable) =>
        /\ srcPc \in {"cmdline", "template", "exif", "source", "error"}
        /\ encoderCalls = 0
        /\ ~bayeredImage.some
        /\ ~outputFile.some

C19_Witness ==
    /\ input.kind = "npy" /\ input.dtype = "uint16" /\ Len(input.shape) = 2
    /\ 16384 \in SamplesOf(input)
    /\ \A v \in SamplesOf(input) : v <= 16384
    /\ srcPc = "error" /\ error = "pixels"
    /\ encoderCalls = 0 /\ ~outputFile.some

\* the row, column and channel of sample k of the input, as it lies in data
RowOf(k) == (k - 1) \div (input.shape[2] * (IF Len(input.shape) = 3 THEN input.shape[3] ELSE 1))
ColumnOf(k) ==
    IF Len(input.shape) = 3 THEN ((k - 1) \div input.shape[3]) % input.shape[2]
    ELSE (k - 1) % input.shape[2]
ChannelOf(k) == (k - 1) % input.shape[3]

\* C28: fitting a pre-Bayer Numpy source onto the raw frame preserves the RGGB
\* phase: channel 0 of a 4-channel input lands only on (even row, even column)
\* sites, channel 1 on (even, odd), channel 2 on (odd, even) and channel 3 on
\* (odd, odd), and a sample at (r, c) of a 2-D input lands on a site of the
\* parity of r and c, for every input size and alignment.
C28_NumpyPhasePreserved ==
    PreBayerPlane =>
        \A Y \in 0 .. tgtDimensions.rows - 1, X \in 0 .. tgtDimensions.columns - 1 :
            \A k \in DOMAIN input.data :
                (bayeredImage.plane[Y + 1][X + 1] = input.data[k]
                    /\ input.data[k] # blackLevel)
                => IF Len(input.shape) = 3
                     THEN Y % 2 = ChannelOf(k) \div 2 /\ X % 2 = ChannelOf(k) % 2
                     ELSE Y % 2 = RowOf(k) % 2 /\ X % 2 = ColumnOf(k) % 2

\* C30: for every 2-D uint16 Numpy input with all samples < 16384, of any
\* dimensions and any alignment, processSourceNumpy completes without error and
\* returns a plane of the raw dimensions in which the destination region has
\* the shape of the cropped input region copied into it, and every other site
\* holds blackLevel.
C30_NumpyPlaneFitted ==
    (/\ input.kind = "npy" /\ input.dtype = "uint16"
     /\ Len(input.shape) = 2
     /\ \A v \in SamplesOf(input) : v < 16384
     /\ srcPc \notin {"cmdline", "template", "exif", "source"}
     /\ error \notin {"cmdline", "template", "donor", "load"})
    => /\ bayeredImage.some
       /\ Len(bayeredImage.plane) = tgtDimensions.rows
       /\ \A Y \in 1 .. tgtDimensions.rows :
             Len(bayeredImage.plane[Y]) = tgtDimensions.columns
       /\ LET h == Min(input.shape[1], tgtDimensions.rows)
              w == Min(input.shape[2], tgtDimensions.columns)
          IN  \E oy \in 0 .. tgtDimensions.rows - h, ox \in 0 .. tgtDimensions.columns - w,
                 cy \in 0 .. input.shape[1] - h, cx \in 0 .. input.shape[2] - w :
                 \A Y \in 0 .. tgtDimensions.rows - 1, X \in 0 .. tgtDimensions.columns - 1 :
                    bayeredImage.plane[Y + 1][X + 1] =
                        IF Y - oy \in 0 .. h - 1 /\ X - ox \in 0 .. w - 1
                          THEN In2(input, cy + Y - oy, cx + X - ox)
                          ELSE blackLevel

(***************************************************************************)
(* Donor metadata: extractExifFromNEF (453-659).  The report of            *)
(* "exiftool -v3 -PreviewImageStart" is a sequence of lines; a line is     *)
(* [ifd, name, value, dump]: the directory it is printed in, the tag (or   *)
(* directory header) it names, its value, and the "- Tag 0x.. / offset:    *)
(* bytes" lines that follow it (None when they are absent).  The parser    *)
(* never reads ifd: it only searches forward from a position, as           *)
(* re.search does on the rest of the text.                                 *)
(***************************************************************************)
MaxMissing == 2

ExifLine(ifd, name, value, dump) ==
    [ifd |-> ifd, name |-> name, value |-> value, dump |-> dump]

TagDump(offset, bytes) == [some |-> TRUE, offset |-> offset, bytes |-> bytes]

\* the report of a donor NEF, in the order exiftool prints it: IFD0 with the
\* thumbnail's own tags, the JpgFromRaw SubIFD, the raw SubIFD, the OtherImage
\* SubIFD, ExifIFD with the MakerNotes, IFD1, and last the tag requested by
\* -PreviewImageStart, which exiftool prints only when the donor has it.
\* previews is the set of embedded JPEGs the donor carries, seed the bytes at
\* offsets 2 and 3 of its NEFLinearizationTable
DonorReport(byteOrder, bits, compression, countDump, previews, seed) ==
    << ExifLine("", "FileType", "NEF", None),
       ExifLine("", "ExifByteOrder", byteOrder, None),
       ExifLine("", "IFD0 directory", 0, None),
       ExifLine("IFD0", "SubfileType", 1, None),
       ExifLine("IFD0", "ImageWidth", 160, None),
       ExifLine("IFD0", "ImageHeight", 120, None),
       ExifLine("IFD0", "BitsPerSample", 8, None),
       ExifLine("IFD0", "Model", "NIKON Z 6", None) >>
    \o (IF "JpgFromRaw" \in previews
          THEN << ExifLine("SubIFD", "JpgFromRawStart", 1000, None),
                  ExifLine("SubIFD", "JpgFromRawLength", 500,
                           TagDump(130, <<244, 1, 0, 0>>)) >>
          ELSE <<>>)
    \o << ExifLine("SubIFD1", "SubfileType", 0, None),
          ExifLine("SubIFD1", "ImageWidth", 6048, None),
          ExifLine("SubIFD1", "ImageHeight", 4032, None),
          ExifLine("SubIFD1", "BitsPerSample", bits, None),
          ExifLine("SubIFD1", "StripOffsets", 2000, None),
          ExifLine("SubIFD1", "StripByteCounts", 900,
                   IF countDump THEN TagDump(142, <<132, 3, 0, 0>>) ELSE None) >>
    \o (IF "OtherImage" \in previews
          THEN << ExifLine("SubIFD2", "OtherImageStart", 1600, None),
                  ExifLine("SubIFD2", "OtherImageLength", 200,
                           TagDump(160, <<200, 0, 0, 0>>)) >>
          ELSE <<>>)
    \o << ExifLine("IFD0", "ExifIFD directory", 0, None),
          ExifLine("ExifIFD", "MakerNotes directory", 0, None),
          ExifLine("MakerNotes", "WB_RBLevels", <<<<981, 512>>, <<644, 512>>>>, None) >>
    \o (IF "PreviewImage" \in previews
          THEN << ExifLine("PreviewIFD", "PreviewImageStart", 1186, None),
                  ExifLine("PreviewIFD", "PreviewImageLength", 300,
                           TagDump(190, <<44, 1, 0, 0>>)) >>
          ELSE <<>>)
    \o << ExifLine("MakerNotes", "BlackLevel", 1008, None),
          ExifLine("MakerNotes", "CropArea", <<8, 4, 6032, 4024>>, None),
          ExifLine("MakerNotes", "NEFCompression", compression, None),
          ExifLine("MakerNotes", "NEFLinearizationTable", 0,
                   TagDump(210, <<70, 48, seed[1], seed[2]>>)) >>
    \o (IF "Thumbnail" \in previews
          THEN << ExifLine("IFD1", "ThumbnailOffset", 1850, None),
                  ExifLine("IFD1", "ThumbnailLength", 100,
                           TagDump(230, <<100, 0, 0, 0>>)) >>
          ELSE <<>>)
    \o (IF "PreviewImage" \in previews
          THEN << ExifLine("", "Preview Image Start", 1500, None) >>
          ELSE <<>>)

\* the report of a donor with a JpgFromRaw and a PreviewImage, whose
\* NEFLinearizationTable starts 46 30 00 08
ExiftoolReport(byteOrder, bits, compression, countDump) ==
    DonorReport(byteOrder, bits, compression, countDump,
                {"JpgFromRaw", "PreviewImage"}, <<0, 8>>)

\* the sets of at most k positions out of S
RECURSIVE UpTo(_, _)
UpTo(S, k) ==
    IF k = 0 THEN {{}}
    ELSE LET fewer == UpTo(S, k - 1)
         IN  fewer \cup {T \cup {x} : T \in fewer, x \in S}

\* the report without the lines whose positions are in missing
WithoutLines(text, missing) ==
    LET kept == SelectSeq([i \in 1 .. Len(text) |-> i], LAMBDA i : i \notin missing)
    IN  [k \in 1 .. Len(kept) |-> text[kept[k]]]

\* re.search(pattern, text[from:]): the position of the first line at or after
\* from that the pattern matches, 0 for no match (from = 0: nothing to search)
re_search(text, from, Matches(_)) ==
    LET hits == {i \in from .. Len(text) : from > 0 /\ Matches(text[i])}
    IN  IF hits = {} THEN 0 ELSE CHOOSE i \in hits : \A j \in hits : i <= j

\* re.search(rf'{name} = (\d+)', ...).  No tag name of the report ends with
\* another name that is searched for, so the pattern is found exactly in the
\* lines of the tag called name
FieldAt(text, from, name) == re_search(text, from, LAMBDA l : l.name = name)

\* re.search(rf'{name} = (\d+).*\n.*Tag.*\n.*?([0-9a-f]+):', ...): the field
\* must be followed by its tag line and the line of its bytes
FieldWithDumpAt(text, from, name) ==
    re_search(text, from, LAMBDA l : l.name = name /\ l.dump.some)

\* extractEmbeddedJpgExifInfo (466-499): None if the start or the length
\* field is not found
extractEmbeddedJpgExifInfo(text, ifd0, previewImageStart, exifName) ==
    LET start == FieldAt(text, ifd0,
                     exifName \o (IF exifName = "Thumbnail" THEN "Offset" ELSE "Start"))
        len   == FieldWithDumpAt(text, ifd0, exifName \o "Length")
    IN  IF start = 0 \/ len = 0 THEN None
        ELSE [some |-> TRUE,
              exifName |-> exifName,
              start |-> IF exifName # "PreviewImage" THEN text[start].value
                        ELSE previewImageStart,
              length |-> text[len].value,
              offsetToLengthField |-> text[len].dump.offset]

\* exif.embeddedJpgs (559-563): the records found, in the order of
\* EmbeddedJpgExifNames
ExtractEmbeddedJpgs(text, ifd0, previewImageStart) ==
    LET found == SelectSeq([i \in 1 .. Len(EmbeddedJpgExifNames) |->
                               extractEmbeddedJpgExifInfo(text, ifd0, previewImageStart,
                                                          EmbeddedJpgExifNames[i])],
                           LAMBDA e : e.some)
    IN  [k \in 1 .. Len(found) |->
            [exifName |-> found[k].exifName,
             start |-> found[k].start,
             length |-> found[k].length,
             offsetToLengthField |-> found[k].offsetToLengthField]]

\* 566-568: the SubIFD whose SubfileType is 0, searched from IFD0 on
subIFDStart(text, ifd0) ==
    re_search(text, ifd0, LAMBDA l : l.name = "SubfileType" /\ l.value = 0)

ExifIFDStart(text, ifd0) == FieldAt(text, ifd0, "ExifIFD directory")

\* 604-606: r'ExifIFD directory.*MakerNotes directory' with re.DOTALL; the
\* match starts at the first ExifIFD header that a MakerNotes header follows
makerNotesStart(text, ifd0) ==
    LET e == FieldAt(text, ifd0, "ExifIFD directory")
    IN  IF e > 0 /\ FieldAt(text, e + 1, "MakerNotes directory") > 0 THEN e ELSE 0

\* 642-646: the 16-bit value of bytes 2 and 3 of the table, in the donor's
\* byte order
predValueNefCompression(endian, bytes) ==
    IF endian = "LITTLE" THEN bytes[4] * 256 + bytes[3] ELSE bytes[3] * 256 + bytes[4]

ReturnNone == [raised |-> FALSE, exif |-> None]

\* extractExifFromNEF: [raised, exif]; raised for an uncaught exception, exif
\* the namespace returned (None for every reported error)
extractExifFromNEF(res) ==
    IF ~res.some \/ res.stderr THEN ReturnNone
    ELSE
    LET text       == res.stdout
        fileType   == FieldAt(text, 1, "FileType")
        byteOrder  == FieldAt(text, 1, "ExifByteOrder")
        ifd0       == FieldAt(text, 1, "IFD0 directory")
        model      == FieldAt(text, ifd0, "Model")
        preview    == FieldAt(text, 1, "Preview Image Start")
        subIFD     == subIFDStart(text, ifd0)
        width      == FieldAt(text, subIFD, "ImageWidth")
        height     == FieldAt(text, subIFD, "ImageHeight")
        bits       == FieldAt(text, subIFD, "BitsPerSample")
        offsets    == FieldAt(text, subIFD, "StripOffsets")
        counts     == FieldWithDumpAt(text, subIFD, "StripByteCounts")
        makerNotes == makerNotesStart(text, ifd0)
        wb         == FieldAt(text, makerNotes, "WB_RBLevels")
        compr      == FieldAt(text, makerNotes, "NEFCompression")
        black      == FieldAt(text, makerNotes, "BlackLevel")
        table      == re_search(text, makerNotes,
                          LAMBDA l : /\ l.name = "NEFLinearizationTable"
                                     /\ l.dump.some
                                     /\ Len(l.dump.bytes) >= 4)
        crop       == FieldAt(text, makerNotes, "CropArea")
        endian     == IF text[byteOrder].value = "II" THEN "LITTLE" ELSE "BIG"
    IN  IF fileType = 0 THEN [raised |-> TRUE, exif |-> None]
        ELSE IF text[fileType].value # "NEF" THEN ReturnNone
        ELSE IF byteOrder = 0 THEN ReturnNone
        ELSE IF text[byteOrder].value \notin {"II", "MM"} THEN ReturnNone
        ELSE IF ifd0 = 0 THEN ReturnNone
        ELSE IF model = 0 THEN ReturnNone
        ELSE IF preview = 0 THEN ReturnNone
        ELSE IF subIFD = 0 THEN ReturnNone
        ELSE IF width = 0 \/ height = 0 THEN ReturnNone
        ELSE IF bits = 0 THEN ReturnNone
        ELSE IF text[bits].value # 14 THEN ReturnNone
        ELSE IF offsets = 0 THEN ReturnNone
        ELSE IF counts = 0 THEN ReturnNone
        ELSE IF makerNotes = 0 THEN ReturnNone
        ELSE IF wb = 0 THEN ReturnNone
        ELSE IF compr = 0 THEN ReturnNone
        ELSE IF text[compr].value # 3 THEN ReturnNone
        ELSE IF table = 0 THEN ReturnNone
        ELSE [raised |-> FALSE,
              exif |->
                [some |-> TRUE,
                 endian |-> endian,
                 cameraModel |-> text[model].value,
                 PreviewImageStart |-> text[preview].value,
                 embeddedJpgs |-> ExtractEmbeddedJpgs(text, ifd0, text[preview].value),
                 rawDimensions |-> Dimensions(text[width].value, text[height].value),
                 bitsPerSample |-> text[bits].value,
                 stripOffset |-> text[offsets].value,
                 stripByteCount |-> text[counts].value,
                 fileOffsetToStripByteCount |-> text[counts].dump.offset,
                 wbMultipliers |-> [red |-> text[wb].value[1], blue |-> text[wb].value[2]],
                 nefCompressionType |-> text[compr].value,
                 blackLevel |-> IF black > 0 THEN text[black].value ELSE 0,
                 predValueNefCompression |->
                     predValueNefCompression(endian, text[table].dump.bytes),
                 cropAreaDimensions |->
                     IF crop > 0
                        THEN [some |-> TRUE,
                              left |-> text[crop].value[1], top |-> text[crop].value[2],
                              columns |-> text[crop].value[3], rows |-> text[crop].value[4]]
                        ELSE None]]

PreviewNames == {EmbeddedJpgExifNames[i] : i \in DOMAIN EmbeddedJpgExifNames}

\* values of a byte of the NEFLinearizationTable
SeedBytes == {0, 8, 64, 255}

\* what execExternalProgram("exiftool", ...) can return (506-513): None when
\* exiftool cannot be run, a message on stderr, or a report on stdout, here a
\* donor's report with up to MaxMissing of its lines absent, or the report of
\* a donor with any set of embedded JPEGs and any predictor seed
ExiftoolInit ==
    \/ result = None
    \/ result = [some |-> TRUE, stderr |-> TRUE, stdout |-> <<>>]
    \/ \E byteOrder \in {"II", "MM", "XX"}, bits \in {12, 14}, compression \in {1, 3},
          countDump \in BOOLEAN :
         LET report == ExiftoolReport(byteOrder, bits, compression, countDump)
         IN  \E missing \in UpTo(1 .. Len(report), MaxMissing) :
                result = [some |-> TRUE, stderr |-> FALSE,
                             stdout |-> WithoutLines(report, missing)]
    \/ \E byteOrder \in {"II", "MM"}, previews \in SUBSET PreviewNames,
          b2 \in SeedBytes, b3 \in SeedBytes :
         result = [some |-> TRUE, stderr |-> FALSE,
                   stdout |-> DonorReport(byteOrder, 14, 3, TRUE, previews, <<b2, b3>>)]

ExifInit ==
    /\ GeomIdle
    /\ GridIdle
    /\ NefIdle
    /\ SrcIdle
    /\ ExiftoolInit
    /\ exifPc = "call"

\* run (1754): Config.exif = extractExifFromNEF(Config.args.templatenef)
ExtractExifFromNEF ==
    /\ exifPc = "call"
    /\ LET r == extractExifFromNEF(result)
       IN  /\ exif' = r.exif
           /\ exifPc' = IF r.raised THEN "raised" ELSE "done"
    /\ UNCHANGED <<templateNef, encodedImageData, haveImage, newNefData, jpgIdx,
                   quality, encodes, placeholderCalls, anyFit, inserted, outcome,
                   jpgsError, outputFile, error, fWriteFailed, pc>>
    /\ UNCHANGED <<geomVars, srcVars, result, gridVars>>

ExifNext == ExtractExifFromNEF

SpecExif == ExifInit /\ [][ExifNext]_vars

(***************************************************************************)
(* The raw codec: NefEncode of nefencode.c, which src_EncodeToNikonLossless *)
(* (662-738) calls with the Bayer plane, the raw dimensions and the        *)
(* predictor seed.  nefencode.c is not among the sources; the coder is      *)
(* modelled from the specification's sections 4.2 and 4.3.  The Huffman    *)
(* code table is not given there: the code of category c is the symbol     *)
(* [cat |-> c] of the strip, and the raw bits after it are the strip's     *)
(* bits 0 and 1, most significant first.                                   *)
(***************************************************************************)
RECURSIVE Pow2(_)
Pow2(n) == IF n = 0 THEN 1 ELSE 2 * Pow2(n - 1)

\* "d = s - p interpreted as a signed 15-bit value"
Signed15(n) == ((n + 16384) % 32768) - 16384

\* c = 0 if d = 0, else floor(log2(|d|)) + 1
Category(d) ==
    LET a == IF d < 0 THEN -d ELSE d
    IN  CHOOSE c \in 0 .. 16 : a < Pow2(c) /\ (c > 0 => a >= Pow2(c - 1))

\* the low c bits of d for d > 0, of d - 1 for d < 0
RawBits(d, c) == (IF d > 0 THEN d ELSE d - 1) % Pow2(c)

\* writeBits(value, nBits): the bits most significant first
WriteBits(value, nBits) == [i \in 1 .. nBits |-> (value \div Pow2(nBits - i)) % 2]

\* the prediction at (row, col): the register of the row's parity and the
\* column's parity, reset from the seed for the first column pair of a row
\* and holding the sample two columns back afterwards
Prediction(plane, seed, row, col) ==
    IF col < 2 THEN seed ELSE plane[row + 1][col - 2 + 1]

EncodeResidual(s, pred) ==
    LET d == Signed15(s - pred)
        c == Category(d)
    IN  <<[cat |-> c]>> \o WriteBits(RawBits(d, c), c)

\* the strip of samples k .. rows * columns of the plane, rows ascending and
\* columns ascending within a row
RECURSIVE EncodeFrom(_, _, _)
EncodeFrom(plane, seed, k) ==
    LET columns == Len(plane[1])
        row == (k - 1) \div columns
        col == (k - 1) % columns
    IN  IF k > Len(plane) * columns THEN <<>>
        ELSE EncodeResidual(plane[row + 1][col + 1], Prediction(plane, seed, row, col))
             \o EncodeFrom(plane, seed, k + 1)

NefEncode(plane, seed) == EncodeFrom(plane, seed, 1)

\* the value of the bits strip[from .. from + n - 1]
RECURSIVE ReadBits(_, _, _)
ReadBits(strip, from, n) ==
    IF n = 0 THEN 0 ELSE 2 * ReadBits(strip, from, n - 1) + strip[from + n - 1]

\* the inverse of the residual rule: raw bits with the top bit set are d,
\* the others are d - 1 of a negative d
DecodeResidual(c, v) ==
    IF c = 0 THEN 0 ELSE IF v >= Pow2(c - 1) THEN v ELSE v - Pow2(c) + 1

\* the samples decoded from strip[at ..] given the samples decoded so far, in
\* scan order
RECURSIVE DecodeFrom(_, _, _, _, _)
DecodeFrom(strip, at, done, columns, seed) ==
    IF at > Len(strip) THEN done
    ELSE LET c == strip[at].cat
             col == Len(done) % columns
             pred == IF col < 2 THEN seed ELSE done[Len(done) - 1]
             s == pred + DecodeResidual(c, ReadBits(strip, at + 1, c))
         IN  DecodeFrom(strip, at + c + 1, Append(done, s), columns, seed)

NefDecode(strip, dims, seed) ==
    LET flat == DecodeFrom(strip, 1, <<>>, dims.columns, seed)
    IN  [y \in 1 .. dims.rows |-> [x \in 1 .. dims.columns |->
            flat[(y - 1) * dims.columns + x]]]

\* samples of the planes encoded
CodecSamples == <<0, 1008, 8191, 16383>>

\* the plane whose sample at (y, x) is CodecSamples[(a * y + b * x + k) mod 4 + 1]
CodecPlane(dims, a, b, k) ==
    [y \in 1 .. dims.rows |-> [x \in 1 .. dims.columns |->
        CodecSamples[((a * (y - 1) + b * (x - 1) + k) % Len(CodecSamples)) + 1]]]

\* run() at the call of src_EncodeToNikonLossless: Config.exif is the
\* metadata extractExifFromNEF returned for the donor's report, here with
\* small raw dimensions, and bayeredImage a plane of these dimensions
CodecInit ==
    /\ GeomIdle
    /\ GridIdle
    /\ \E byteOrder \in {"II", "MM"}, b2 \in SeedBytes, b3 \in SeedBytes :
         result = [some |-> TRUE, stderr |-> FALSE,
                   stdout |-> DonorReport(byteOrder, 14, 3, TRUE,
                                          {"JpgFromRaw", "PreviewImage"}, <<b2, b3>>)]
    /\ exifPc = "done"
    /\ \E columns \in {2, 4}, rows \in {2, 4} :
         /\ exif = [extractExifFromNEF(result).exif
                    EXCEPT !.rawDimensions = Dimensions(columns, rows)]
         /\ \E a \in 0 .. 3, b \in 0 .. 3, k \in 0 .. 3 :
               bayeredImage = [some |-> TRUE,
                               plane |-> CodecPlane(Dimensions(columns, rows), a, b, k)]
    /\ templateNef = <<>>
    /\ encodedImageData = <<>>
    /\ haveImage = FALSE
    /\ newNefData = <<>>
    /\ jpgIdx = 0
    /\ quality = 0
    /\ encodes = <<>>
    /\ placeholderCalls = <<>>
    /\ anyFit = <<>>
    /\ inserted = <<>>
    /\ outcome = <<>>
    /\ jpgsError = FALSE
    /\ outputFile = None
    /\ error = ""
    /\ fWriteFailed = FALSE
    /\ pc = "idle"
    /\ input = None
    /\ srcImage = None
    /\ site = <<0, 0>>
    /\ args = None
    /\ blackLevel = exif.blackLevel
    /\ wbMultipliers = None
    /\ image = None
    /\ opsDone = 0
    /\ encoderCalls = 0
    /\ srcPc = "encode"

\* src_EncodeToNikonLossless (662-738) with startingPredictiveValue as
\* given; the shared library may fail to load (689-691)
EncodeWithStartingPredictiveValue(startingPredictiveValue) ==
    /\ srcPc = "encode"
    /\ encoderCalls' = encoderCalls + 1
    /\ \/ /\ srcPc' = "error" /\ error' = "encode"
          /\ UNCHANGED encodedImageData
       \/ /\ srcPc' = "write" /\ UNCHANGED error
          /\ encodedImageData' = NefEncode(bayeredImage.plane, startingPredictiveValue)
    /\ UNCHANGED <<exif, templateNef, haveImage, newNefData, jpgIdx, quality, encodes,
                   placeholderCalls, anyFit, inserted, outcome, jpgsError, outputFile,
                   fWriteFailed, pc>>
    /\ UNCHANGED <<input, srcImage, site, args, blackLevel, wbMultipliers, image, opsDone,
                   bayeredImage>>
    /\ UNCHANGED <<geomVars, exifVars, gridVars>>

\* variant: the encoder is started from predictor 0
EncodeBayerImageFromZero == EncodeWithStartingPredictiveValue(0)

\* nefEncodeParams.startingPredictiveValue = Config.exif.predValueNefCompression (724)
EncodeBayerImage == EncodeWithStartingPredictiveValue(exif.predValueNefCompression)

CodecNext == EncodeBayerImage

SpecCodec == CodecInit /\ [][CodecNext]_vars

(***************************************************************************)
(* Properties of the donor metadata.                                       *)
(***************************************************************************)
\* the report has a line of this tag printed in this directory
HasField(ifd, name) ==
    \E i \in 1 .. Len(result.stdout) :
        result.stdout[i].ifd = ifd /\ result.stdout[i].name = name

FieldValue(ifd, name) ==
    result.stdout[CHOOSE i \in 1 .. Len(result.stdout) :
                     result.stdout[i].ifd = ifd /\ result.stdout[i].name = name].value

HasFieldOffset(ifd, name) ==
    \E i \in 1 .. Len(result.stdout) :
        /\ result.stdout[i].ifd = ifd
        /\ result.stdout[i].name = name
        /\ result.stdout[i].dump.some

\* one of the fields the claim lists is missing
RequiredFieldMissing ==
    \/ ~HasField("", "ExifByteOrder")
    \/ ~HasField("IFD0", "Model")
    \/ ~HasField("SubIFD1", "SubfileType")
    \/ ~HasField("SubIFD1", "ImageWidth")
    \/ ~HasField("SubIFD1", "ImageHeight")
    \/ ~HasField("SubIFD1", "BitsPerSample")
    \/ ~HasField("SubIFD1", "StripOffsets")
    \/ ~HasFieldOffset("SubIFD1", "StripByteCounts")
    \/ ~HasField("ExifIFD", "MakerNotes directory")
    \/ ~HasField("MakerNotes", "WB_RBLevels")
    \/ ~HasField("MakerNotes", "NEFCompression")
    \/ ~HasField("MakerNotes", "NEFLinearizationTable")

Unsupported ==
    \/ HasField("SubIFD1", "BitsPerSample") /\ FieldValue("SubIFD1", "BitsPerSample") # 14
    \/ HasField("MakerNotes", "NEFCompression")
          /\ FieldValue("MakerNotes", "NEFCompression") # 3

\* the report is that of a NEF and has everything else the parser needs
ReportOfNef ==
    /\ HasField("", "FileType")
    /\ HasField("", "ExifByteOrder") /\ FieldValue("", "ExifByteOrder") \in {"II", "MM"}
    /\ HasField("", "IFD0 directory")
    /\ HasField("IFD0", "ExifIFD directory")
    /\ HasField("", "Preview Image Start")

PreviewTags ==
    {n \in PreviewNames :
        /\ \E i \in 1 .. Len(result.stdout) :
              result.stdout[i].name = n \o (IF n = "Thumbnail" THEN "Offset" ELSE "Start")
        /\ \E i \in 1 .. Len(result.stdout) :
              result.stdout[i].name = n \o "Length" /\ result.stdout[i].dump.some}

\* the report of a NEF with every required field, 14 bits per sample and
\* lossless compression; exiftool prints the requested PreviewImageStart tag
\* exactly when the donor has a PreviewImage
CompatibleDonor ==
    /\ result.some /\ ~result.stderr
    /\ HasField("", "FileType")
    /\ HasField("", "ExifByteOrder") /\ FieldValue("", "ExifByteOrder") \in {"II", "MM"}
    /\ HasField("", "IFD0 directory")
    /\ HasField("IFD0", "ExifIFD directory")
    /\ ~RequiredFieldMissing
    /\ ~Unsupported
    /\ HasField("", "Preview Image Start") <=> HasField("PreviewIFD", "PreviewImageStart")

\* C21: a donor that carries only one of the four preview tags, is 14-bit,
\* uses NEFCompression 3 and has every other required field is accepted, and
\* the preview list of the metadata holds exactly the records present.
C21_SinglePreviewDonorAccepted ==
    (exifPc \in {"done", "raised"} /\ CompatibleDonor /\ Cardinality(PreviewTags) = 1) =>
        /\ exifPc = "done"
        /\ exif.some
        /\ {exif.embeddedJpgs[i].exifName : i \in 1 .. Len(exif.embeddedJpgs)} = PreviewTags
        /\ Len(exif.embeddedJpgs) = 1

(***************************************************************************)
(* Properties of the output file.                                          *)
(***************************************************************************)
\* C22: when writeOutputNEF fails, the output path is as it was before the
\* run: no partial NEF is left behind and a file that existed there before is
\* not truncated.
C22_NoOutputFileAfterFailure ==
    [][(pc' = "done" /\ fWriteFailed') => outputFile' = outputFile]_vars

(***************************************************************************)
(* Properties of run().                                                    *)
(***************************************************************************)
\* the errors of run() by kind: an invalid command line or option value, a
\* donor the parser rejects, a source that cannot be loaded or is not
\* supported
ConfigErrors == {"cmdline", "template", "filename"}
DonorFormatErrors == {"donor"}
SourceFormatErrors == {"load", "dtype", "pixels", "shape"}

SourceUntouched == image = None /\ opsDone = 0 /\ ~bayeredImage.some

\* C23: a run that ends in a ConfigError or DonorFormatError has not loaded or
\* processed the source image; a run that ends in a SourceFormatError has not
\* called the encoder; a run in which the encoder fails has not opened or
\* written an output file.
C23_FailuresFollowPhaseOrder ==
    /\ (srcPc = "error" /\ error \in ConfigErrors \cup DonorFormatErrors) => SourceUntouched
    /\ (srcPc = "error" /\ error \in SourceFormatErrors) => encoderCalls = 0
    /\ (srcPc = "error" /\ error = "encode") => ~outputFile.some

(***************************************************************************)
(* Properties of the preview regeneration.                                 *)
(***************************************************************************)
QualityOrder == <<100, 90, 80, 70, 60, 50, 40, 30, 20>>

IsPrefix(a, b) == Len(a) <= Len(b) /\ a = SubSeq(b, 1, Len(a))

\* generateEmbeddedJpg was called for record i and returned None
NoJpgFits(i) == haveImage /\ encodes[i] = QualityOrder /\ outcome[i] # "regen"

\* record i has passed lines 1030-1036
Generated(i) == outcome[i] \in {"regen", "placeholder", "skipped"}

\* C26: generateEmbeddedJpg encodes at quality 100, 90, ..., 20 in that order,
\* returns the first encoding that is not longer than the original preview,
\* and returns no JPEG only after the quality-20 encoding was too long as
\* well; the placeholder generator is called exactly when there is no source
\* image or generateEmbeddedJpg returned no JPEG.
C26_QualityLadderThenPlaceholder ==
    \A i \in 1 .. Len(encodes) :
        /\ IsPrefix(encodes[i], QualityOrder)
        /\ (~haveImage) => encodes[i] = <<>>
        /\ (pc = "encode" /\ jpgIdx = i) =>
                /\ ~anyFit[i]
                /\ quality = 100 - 10 * Len(encodes[i])
        /\ outcome[i] = "regen" =>
                /\ anyFit[i]
                /\ Len(inserted[i]) <= exif.embeddedJpgs[i].length
                /\ inserted[i] = JpgBytes(encodes[i][Len(encodes[i])], Len(inserted[i]))
        /\ (pc = "placeholder" /\ jpgIdx = i) =>
                (~haveImage \/ (encodes[i] = QualityOrder /\ ~anyFit[i]))
        /\ placeholderCalls[i] <= 1
        /\ Generated(i) => (placeholderCalls[i] = 1 <=> (~haveImage \/ NoJpgFits(i)))

C26_Witness ==
    /\ pc = "done"
    /\ Len(encodes) = 2
    /\ encodes[1] = QualityOrder /\ placeholderCalls[1] = 1
    /\ encodes[2] = <<100, 90>> /\ outcome[2] = "regen" /\ placeholderCalls[2] = 0

\* generateAndInsertEmbeddedJpgs has returned
PreviewsFinished == pc \in {"write", "done"} /\ error # "read"

\* C29: preview records are regenerated independently: a failure on one record
\* (no JPEG fits, or the donor's JPEG of that record cannot be decoded) does
\* not keep any later record of the list from being regenerated and
\* overwritten.
C29_PreviewsIndependent ==
    PreviewsFinished =>
        \A i \in 1 .. Len(outcome), j \in 1 .. Len(outcome) :
            (i < j /\ outcome[i] \in {"skipped", "undecodable"})
                => outcome[j] # "pending"

(***************************************************************************)
(* createoverlay.py: drawGridline (916-964) for a gridline without an      *)
(* aspect ratio, whose drawing area is the jpg area centred in the raw     *)
(* frame.  A line is recorded by the coordinate drawVertLine or            *)
(* drawHorzLine is given.                                                  *)
(***************************************************************************)
MaxGridArea == 4

\* list(range(start, stop, step)) for step > 0
RECURSIVE Range(_, _, _)
Range(start, stop, step) ==
    IF start >= stop THEN <<>> ELSE <<start>> \o Range(start + step, stop, step)

\* (drawWidth // segments) + (drawWidth % segments != 0)
PixelsPerSegment(drawLength, segments) ==
    (drawLength \div segments) + (IF drawLength % segments # 0 THEN 1 ELSE 0)

\* the coordinates of the lines across one axis (948-951, 954-957)
GridPositions(drawLength, segments, origin) ==
    IF segments = 0 THEN <<>>
    ELSE LET r == Range(PixelsPerSegment(drawLength, segments), drawLength,
                        PixelsPerSegment(drawLength, segments))
         IN  [i \in 1 .. Len(r) |-> r[i] + origin]

\* xOrigin, yOrigin (940-945) with drawWidth, drawHeight = jpgDimensions
GridOrigin(rawLength, jpgLength) == (rawLength - jpgLength) \div 2

GridInit ==
    /\ GeomIdle
    /\ NefIdle
    /\ SrcIdle
    /\ ExifIdle
    /\ \E w \in 1 .. MaxGridArea, h \in 1 .. MaxGridArea,
          c \in 0 .. MaxGridArea, r \in 0 .. MaxGridArea, border \in {0, 1, 2} :
         gridline = [some |-> TRUE,
                     gridDimensions |-> Dimensions(c, r),
                     rawDimensions |-> Dimensions(w + border, h + border),
                     jpgDimensions |-> Dimensions(w, h)]
    /\ vertLines = <<>>
    /\ horzLines = <<>>
    /\ gridPc = "call"

DrawGridline ==
    /\ gridPc = "call"
    /\ vertLines' = GridPositions(gridline.jpgDimensions.columns,
                                  gridline.gridDimensions.columns,
                                  GridOrigin(gridline.rawDimensions.columns,
                                             gridline.jpgDimensions.columns))
    /\ horzLines' = GridPositions(gridline.jpgDimensions.rows,
                                  gridline.gridDimensions.rows,
                                  GridOrigin(gridline.rawDimensions.rows,
                                             gridline.jpgDimensions.rows))
    /\ gridPc' = "done"
    /\ UNCHANGED <<gridline, geomVars, nefVars, srcVars, exifVars>>

GridNext == DrawGridline

SpecGrid == GridInit /\ [][GridNext]_vars

(***************************************************************************)
(* Properties of drawGridline.                                             *)
(***************************************************************************)
StrictlyInside(lines, origin, length) ==
    \A i \in 1 .. Len(lines) : origin < lines[i] /\ lines[i] < origin + length

\* C25: for a drawing area of width W and height H and a grid of C x R with
\* 1 <= C <= W and 1 <= R <= H, drawGridline draws exactly C - 1 vertical
\* lines and R - 1 horizontal lines, all strictly inside the drawing area.
C25_GridOfColumnsAndRows ==
    (/\ gridPc = "done"
     /\ gridline.gridDimensions.columns \in 1 .. gridline.jpgDimensions.columns
     /\ gridline.gridDimensions.rows \in 1 .. gridline.jpgDimensions.rows)
    => /\ Len(vertLines) = gridline.gridDimensions.columns - 1
       /\ Len(horzLines) = gridline.gridDimensions.rows - 1
       /\ StrictlyInside(vertLines,
                         GridOrigin(gridline.rawDimensions.columns,
                                    gridline.jpgDimensions.columns),
                         gridline.jpgDimensions.columns)
       /\ StrictlyInside(horzLines,
                         GridOrigin(gridline.rawDimensions.rows,
                                    gridline.jpgDimensions.rows),
                         gridline.jpgDimensions.rows)

(***************************************************************************)
(* Properties of the raw codec.                                            *)
(***************************************************************************)
Encoded == srcPc = "write" /\ bayeredImage.some /\ encodedImageData # <<>>

\* the dump of the donor's NEFLinearizationTable in the report
LinearizationTable ==
    result.stdout[CHOOSE i \in 1 .. Len(result.stdout) :
                     result.stdout[i].name = "NEFLinearizationTable"].dump.bytes

\* bytes 2 and 3 of the table as a 16-bit integer in the donor's byte order
SeedOfDonor ==
    IF FieldValue("", "ExifByteOrder") = "II"
      THEN LinearizationTable[3] + 256 * LinearizationTable[4]
      ELSE 256 * LinearizationTable[3] + LinearizationTable[4]

\* C27: the predictor seed returned by the donor parser is the 16-bit integer
\* of the bytes at offsets 2 and 3 of the NEFLinearizationTable in the donor's
\* byte order, byte2 + 256 x byte3 for a little-endian and 256 x byte2 + byte3
\* for a big-endian donor, and the encoder is given this value as
\* startingPredictiveValue.
C27_SeedInDonorByteOrder ==
    /\ (exifPc = "done" /\ exif.some) => exif.predValueNefCompression = SeedOfDonor
    /\ Encoded => encodedImageData = NefEncode(bayeredImage.plane, SeedOfDonor)

C27_Witness ==
    /\ Encoded
    /\ FieldValue("", "ExifByteOrder") = "MM"
    /\ LinearizationTable = <<70, 48, 8, 255>>
    /\ exif.predValueNefCompression = 2303
    /\ encodedImageData = NefEncode(bayeredImage.plane, 2303)

\* C24: the raw codec is lossless: for every Bayer plane of raw dimensions
\* with samples in [0, 16383] and every 16-bit predictor seed, decoding the
\* encoded strip by the inverse of the residual rule under the same predictor
\* scheme yields the original sample at every site.
C24_CodecLossless ==
    Encoded =>
        NefDecode(encodedImageData, exif.rawDimensions, exif.predValueNefCompression)
            = bayeredImage.plane

\* the round trip for every predictor seed from 0 to 16384, the seeds
\* for which every residual of a 14-bit sample is a signed 15-bit value
C24_CodecLosslessFor15BitResiduals ==
    (Encoded /\ exif.predValueNefCompression <= 16384) =>
        NefDecode(encodedImageData, exif.rawDimensions, exif.predValueNefCompression)
            = bayeredImage.plane

====
